---- MODULE Spec2Model ----
(***************************************************************************)
(* Hardware orchestration layer of the LO power characterisation tool:     *)
(* the spectrum analyzer proxy (controllers/tinysa_controller.py), the     *)
(* oscillator proxy (controllers/arduino_controller.py) and the sweep      *)
(* orchestrator (lo_power_sweep.py).                                       *)
(*                                                                         *)
(* Every call into the analyzer SDK or the serial channel is an input of   *)
(* the model: it either returns (with a payload drawn from a small set) or *)
(* raises an Exception.  Commands are logged in `trace` at the moment the  *)
(* call is made, whether or not the call then raises.                      *)
(***************************************************************************)
EXTENDS Integers, Sequences, FiniteSets, TLC

VARIABLES
    pc,          \* position of run(): setup, sweep, sweep_end, save, cleanup, done
    config,      \* LOPowerSweep.config
    arduino,     \* LOPowerSweep.arduino  (ArduinoLOController and its channel)
    tinysa,      \* LOPowerSweep.tinysa   (TinySAController and its link)
    results,     \* LOPowerSweep.results
    frequencies, \* run_sweep's local `frequencies`
    idx,         \* run_sweep's loop counter i (index of the next point)
    trace,       \* every command issued to either device, and every settling wait
    setupStatus, \* which step of setup() failed ("ok" when none did)
    pending,     \* exception propagating out of run() ("none" when none)
    retval,      \* what run() returned ("none" until it returns)
    saCall,      \* the latest operation invoked directly on an analyzer proxy
    loCall,      \* the latest operation invoked directly on an oscillator proxy
    lastStored,  \* what a successful set or status parse last stored, per cache field
    codec,       \* position and locals of a running _send_command
    exit_status, \* the status the process exited with (<<>> while it runs)
    window,      \* a scan window: center and span in Hz, and start/stop once computed
    dual,        \* main's loop over two power levels: levels left, handles left open
    script       \* locals of a stand-alone script (sweep_lo, test_arduino)

\* The variables of the direct use of an oscillator proxy and of its codec.
loVars == <<loCall, lastStored, codec>>

\* The variables of main's dual-power loop and of the stand-alone scripts.
scriptVars == <<dual, script>>

\* The variables of the process exit and of the scan window computation,
\* with those of the scripts.
mainVars == <<exit_status, window, scriptVars>>

vars == <<pc, config, arduino, tinysa, results, frequencies, idx, trace,
          setupStatus, pending, retval, saCall, loVars, mainVars>>

(***************************************************************************)
(* Bounds of the model                                                     *)
(***************************************************************************)
MaxPayload == 2     \* longest payload (in tokens) a hop request returns
MaxSpan == 1        \* largest freq_stop - freq_start of a configuration
TimeoutTicks == 3   \* the timeout of _send_command, in passes of its polling loop
MaxGenSpan == 6     \* largest freq_stop - freq_start given to generate_frequency_list alone
MaxGenStep == 3     \* largest freq_step given to generate_frequency_list alone
MaxCenterHz == 8    \* largest center of a scan window, in Hz
MaxSpanHz == 7      \* largest span of a scan window, in Hz
MaxPasses == 2      \* passes of sweep_lo's endless loop that are told apart

(***************************************************************************)
(* Payloads of the analyzer: whitespace separated tokens.  A token is      *)
(* either the text of a number or something float() rejects.               *)
(***************************************************************************)
Num(v) == <<"num", v>>
BadToken == <<"bad", 0>>
Tokens == {Num(1), Num(2), BadToken}

SeqsUpTo(S, n) == UNION {[1..k -> S] : k \in 0..n}

Payloads == SeqsUpTo(Tokens, MaxPayload)

\* What one SDK call does: raise, or return a payload.
Raised == [raised |-> TRUE, payload |-> <<>>]
Returned(p) == [raised |-> FALSE, payload |-> p]
HopOutcomes == {Raised} \cup {Returned(p) : p \in Payloads}

(***************************************************************************)
(* TinySAController._parse_data: every token must convert with float(),    *)
(* otherwise ValueError.                                                   *)
(***************************************************************************)
_parse_data(data_bytes) ==
    IF \E k \in 1..Len(data_bytes) : data_bytes[k][1] # "num"
    THEN [ok |-> FALSE, values |-> <<>>]
    ELSE [ok |-> TRUE, values |-> [k \in 1..Len(data_bytes) |-> data_bytes[k][2]]]

\* The divisor of `freq_values[peak_idx] / 1e6`.
HzPerMHz == 1000000

\* Mutant: the last index holding the maximum.
argmax_last(values) ==
    CHOOSE k \in 1..Len(values) :
        /\ \A j \in 1..Len(values) : values[j] <= values[k]
        /\ \A j \in (k + 1)..Len(values) : values[j] < values[k]

\* np.argmax: the first index holding the maximum (1-based here).
argmax(values) ==
    CHOOSE k \in 1..Len(values) :
        /\ \A j \in 1..Len(values) : values[j] <= values[k]
        /\ \A j \in 1..(k - 1) : values[j] < values[k]

\* Mutant: the mode is chosen by thresholds instead of by equality.
calc_mode_threshold(averaging) ==
    IF averaging >= 16 THEN "calc aver16"
    ELSE IF averaging >= 4 THEN "calc aver4"
    ELSE "calc off"

\* The calc command measure_peak_power selects for `averaging`.
calc_mode(averaging) ==
    IF averaging = 4 THEN "calc aver4"
    ELSE IF averaging = 16 THEN "calc aver16"
    ELSE "calc off"

(***************************************************************************)
(* Results of a proxy call: the commands it issued (in order) and either   *)
(* the value returned or the exception raised.                             *)
(***************************************************************************)
CallReturn(cmds, power, freq) ==
    [cmds |-> cmds, exc |-> "none", cause |-> "none", power |-> power, freq |-> freq]

CallRaise(cmds, exc, cause) ==
    [cmds |-> cmds, exc |-> exc, cause |-> cause, power |-> 0, freq |-> 0]

(***************************************************************************)
(* Outcomes of the SDK calls of one measure_peak_power call: whether calc, *)
(* pause, the resume of the try block and the resume of the except clause  *)
(* return (TRUE) or raise, and what the two hop requests do.  The hop and  *)
(* resume outcomes vary only when calc and pause return.                   *)
(***************************************************************************)
DefaultEnv ==
    [calc |-> TRUE, pause |-> TRUE, hop1 |-> Returned(<<Num(1)>>),
     hop2 |-> Returned(<<Num(1)>>), resume |-> TRUE, resume_except |-> TRUE]

MeasureEnvs ==
    {[DefaultEnv EXCEPT !.calc = FALSE], [DefaultEnv EXCEPT !.pause = FALSE]}
    \cup {[DefaultEnv EXCEPT !.hop1 = h1, !.hop2 = h2, !.resume = r, !.resume_except = x] :
            h1 \in HopOutcomes, h2 \in HopOutcomes, r \in BOOLEAN, x \in BOOLEAN}

\* Mutant: the except clause raises without resuming.
measure_except_no_resume(cmds, cause, env) ==
    CallRaise(cmds, "RuntimeError", cause)

(***************************************************************************)
(* The except clause of measure_peak_power (lines 148-150): resume, then   *)
(* raise RuntimeError; an exception of that resume propagates instead.     *)
(***************************************************************************)
measure_except(cmds, cause, env) ==
    IF env.resume_except
    THEN CallRaise(cmds \o <<"resume">>, "RuntimeError", cause)
    ELSE CallRaise(cmds \o <<"resume">>, "Exception", "resume")

\* Mutant: the "no data" ValueError is raised after the try block, unwrapped.
measure_try_no_data_unwrapped(cmds, env) ==
    LET c1 == cmds \o <<"hop 1">>
        freq == _parse_data(env.hop1.payload)
        c2 == c1 \o <<"hop 2">>
        power == _parse_data(env.hop2.payload)
        c3 == c2 \o <<"resume">>
    IN  IF env.hop1.raised THEN measure_except(c1, "hop", env)
        ELSE IF ~freq.ok THEN measure_except(c1, "parse", env)
        ELSE IF env.hop2.raised THEN measure_except(c2, "hop", env)
        ELSE IF ~power.ok THEN measure_except(c2, "parse", env)
        ELSE IF ~env.resume THEN measure_except(c3, "resume", env)
        ELSE IF Len(power.values) > 0
             THEN LET peak_idx == argmax(power.values)
                  IN  IF peak_idx > Len(freq.values)
                      THEN measure_except(c3, "index", env)
                      ELSE CallReturn(c3, power.values[peak_idx],
                                      <<freq.values[peak_idx], HzPerMHz>>)
             ELSE CallRaise(c3, "ValueError", "no data")

(***************************************************************************)
(* The try block of measure_peak_power (lines 126-146), entered after      *)
(* calc and pause returned.                                                *)
(***************************************************************************)
measure_try(cmds, env) ==
    LET c1 == cmds \o <<"hop 1">>
        freq == _parse_data(env.hop1.payload)
        c2 == c1 \o <<"hop 2">>
        power == _parse_data(env.hop2.payload)
        c3 == c2 \o <<"resume">>
    IN  IF env.hop1.raised THEN measure_except(c1, "hop", env)
        ELSE IF ~freq.ok THEN measure_except(c1, "parse", env)
        ELSE IF env.hop2.raised THEN measure_except(c2, "hop", env)
        ELSE IF ~power.ok THEN measure_except(c2, "parse", env)
        ELSE IF ~env.resume THEN measure_except(c3, "resume", env)
        ELSE IF Len(power.values) > 0
             THEN LET peak_idx == argmax(power.values)
                  IN  IF peak_idx > Len(freq.values)
                      THEN measure_except(c3, "index", env)
                      ELSE CallReturn(c3, power.values[peak_idx],
                                      <<freq.values[peak_idx], HzPerMHz>>)
             ELSE measure_except(c3, "no data", env)

\* int() of a quotient n / d: truncation toward zero.
TruncDiv(n, d) == IF n >= 0 THEN n \div d ELSE -((-n) \div d)

\* Mutant: the half span is truncated before it is subtracted and added.
window_hz_half_first(center_freq_hz, span_hz) ==
    [start_hz |-> center_freq_hz - TruncDiv(span_hz, 2),
     stop_hz |-> center_freq_hz + TruncDiv(span_hz, 2)]

(***************************************************************************)
(* Lines 110-112 of measure_peak_power: int(center - span / 2) and         *)
(* int(center + span / 2), with center - span / 2 = (2 center - span) / 2. *)
(***************************************************************************)
window_hz(center_freq_hz, span_hz) ==
    [start_hz |-> TruncDiv(2 * center_freq_hz - span_hz, 2),
     stop_hz |-> TruncDiv(2 * center_freq_hz + span_hz, 2)]

\* Mutant: the sweep is paused before the averaging mode is set.
measure_peak_power_pause_first(connected, averaging, env) ==
    IF ~connected THEN CallRaise(<<>>, "ConnectionError", "not connected")
    ELSE LET c1 == <<"pause">>
             c2 == c1 \o <<calc_mode(averaging)>>
         IN  IF ~env.pause THEN CallRaise(c1, "Exception", "pause")
             ELSE IF ~env.calc THEN CallRaise(c2, "Exception", "calc")
             ELSE measure_try(c2, env)

(***************************************************************************)
(* TinySAController.measure_peak_power                                     *)
(***************************************************************************)
measure_peak_power(connected, averaging, env) ==
    IF ~connected THEN CallRaise(<<>>, "ConnectionError", "not connected")
    ELSE LET c1 == <<calc_mode(averaging)>>
             c2 == c1 \o <<"pause">>
         IN  IF ~env.calc THEN CallRaise(c1, "Exception", "calc")
             ELSE IF ~env.pause THEN CallRaise(c2, "Exception", "pause")
             ELSE measure_try(c2, env)

\* TinySAController.measure_power_at_frequency: the power of the peak only.
measure_power_at_frequency(connected, averaging, env) ==
    measure_peak_power(connected, averaging, env)

(***************************************************************************)
(* TinySAController.quick_scan.  env.hop1 and env.hop2 are what the two    *)
(* scan requests do; the arrays are returned in the power and freq fields, *)
(* the frequencies divided by 1e6.                                         *)
(***************************************************************************)
ScanEnvs == {env \in MeasureEnvs : env.calc}

\* The except clause of quick_scan (lines 256-258).
quick_scan_except(cmds, cause, env) ==
    IF env.resume_except
    THEN CallRaise(cmds \o <<"resume">>, "RuntimeError", cause)
    ELSE CallRaise(cmds \o <<"resume">>, "Exception", "resume")

\* Mutant: the scan is started without looking at the connected flag.
quick_scan_unchecked(connected, env) ==
    LET c1 == <<"pause">>
        c2 == c1 \o <<"scan 1">>
    IN  IF ~connected \/ ~env.pause THEN CallRaise(c1, "Exception", "pause")
        ELSE quick_scan_except(c2, "scan", env)

quick_scan(connected, env) ==
    IF ~connected THEN CallRaise(<<>>, "ConnectionError", "not connected")
    ELSE LET c1 == <<"pause">>
             c2 == c1 \o <<"scan 1">>
             c3 == c2 \o <<"scan 2">>
             c4 == c3 \o <<"resume">>
             freqs == _parse_data(env.hop1.payload)
             powers == _parse_data(env.hop2.payload)
         IN  IF ~env.pause THEN CallRaise(c1, "Exception", "pause")
             ELSE IF env.hop1.raised THEN quick_scan_except(c2, "scan", env)
             ELSE IF env.hop2.raised THEN quick_scan_except(c3, "scan", env)
             ELSE IF ~env.resume THEN quick_scan_except(c4, "resume", env)
             ELSE IF ~freqs.ok \/ ~powers.ok THEN quick_scan_except(c4, "parse", env)
             ELSE CallReturn(c4, powers.values,
                             [k \in 1..Len(freqs.values) |-> <<freqs.values[k], HzPerMHz>>])

(***************************************************************************)
(* The analyzer proxy: `connected` is TinySAController.connected, `link`   *)
(* is whether the SDK holds the port open, `configured` whether the        *)
(* instrument has received the four defaults over that link.               *)
(* autoconnect() and connect(port) are both the link-opening call          *)
(* "connect".                                                              *)
(***************************************************************************)
NoTinySA == [created |-> FALSE, connected |-> FALSE, link |-> FALSE, configured |-> FALSE]
NewTinySA == [created |-> TRUE, connected |-> FALSE, link |-> FALSE, configured |-> FALSE]

SAResult(sa, cmds, exc) == [sa |-> sa, cmds |-> cmds, exc |-> exc]

\* The SDK calls of connect(), in order; `fail` names the one that raises.
ConnectSteps == <<"connect", "info", "mode low input", "agc auto", "attenuate auto", "rbw auto">>
ConnectFails == {"none"} \cup {ConnectSteps[k] : k \in 1..Len(ConnectSteps)}

StepsThrough(fail) ==
    IF fail = "none" THEN ConnectSteps
    ELSE SubSeq(ConnectSteps, 1, CHOOSE k \in 1..Len(ConnectSteps) : ConnectSteps[k] = fail)

(***************************************************************************)
(* TinySAController.connect (with _configure_sa_mode): `connected` is set  *)
(* as soon as the link is open, before info() and the defaults.            *)
(***************************************************************************)
tinysa_connect(sa, fail) ==
    IF sa.connected THEN SAResult(sa, <<>>, "none")
    ELSE IF fail = "connect"
         THEN SAResult(sa, StepsThrough(fail), "ConnectionError")
         ELSE SAResult([sa EXCEPT !.connected = TRUE, !.link = TRUE,
                                  !.configured = (fail = "none")],
                       StepsThrough(fail),
                       IF fail = "none" THEN "none" ELSE "ConnectionError")

(***************************************************************************)
(* TinySAController.disconnect: resume, SDK disconnect, then the flag;     *)
(* an exception of either call is printed and leaves the rest undone.      *)
(***************************************************************************)
tinysa_disconnect(sa, resume_ok, disconnect_ok) ==
    IF ~sa.connected THEN SAResult(sa, <<>>, "none")
    ELSE IF ~resume_ok THEN SAResult(sa, <<"resume">>, "none")
    ELSE IF ~disconnect_ok THEN SAResult(sa, <<"resume", "disconnect">>, "none")
    ELSE SAResult([sa EXCEPT !.connected = FALSE, !.link = FALSE, !.configured = FALSE],
                  <<"resume", "disconnect">>, "none")

\* TinySAController.set_rbw / set_attenuation with a number: one SDK call.
set_rbw(sa, ok) ==
    SAResult(sa, <<"rbw value">>, IF ok THEN "none" ELSE "Exception")

set_attenuation(sa, ok) ==
    SAResult(sa, <<"attenuate value">>, IF ok THEN "none" ELSE "Exception")

(***************************************************************************)
(* The oscillator proxy.  `open` is "ser is not None and ser.is_open";     *)
(* the caches are <<>> (None) or <<v>>.  A response is the sequence of     *)
(* lines _send_command collected.                                          *)
(***************************************************************************)
NoArduino == [created |-> FALSE, open |-> FALSE, current_freq |-> <<>>, current_power |-> <<>>]
NewArduino == [created |-> TRUE, open |-> FALSE, current_freq |-> <<>>, current_power |-> <<>>]

\* The tokens the proxy looks for, per line of the firmware's vocabulary.
LineTokens(line) ==
    CASE line = "925.000 MHz" -> {"MHz"}
      [] line = "Prog: done" -> {"Prog:"}
      [] line = "ERR: unknown command" -> {"ERR"}
      [] line = "ERR: range is 35-4400 MHz" -> {"ERR", "MHz"}
      [] line = "Power: +5 dBm" -> {"Power", "dBm"}
      [] line = "ERR: Power not supported" -> {"ERR", "Power"}
      [] OTHER -> {}

Contains(token, response) ==
    \E k \in 1..Len(response) : token \in LineTokens(response[k])

FreqResponses ==
    {<<>>, <<"925.000 MHz">>, <<"Prog: done">>, <<"ok">>,
     <<"ERR: unknown command">>, <<"ERR: range is 35-4400 MHz">>}

PowerResponses ==
    {<<>>, <<"Power: +5 dBm">>, <<"ok">>,
     <<"ERR: unknown command">>, <<"ERR: Power not supported">>}

LOResult(lo, cmds, exc, ret) == [lo |-> lo, cmds |-> cmds, exc |-> exc, ret |-> ret]

LOCmd(cmd, arg) == [cmd |-> cmd, arg |-> arg]

\* Mutant: the channel is written without looking at whether it is open.
_send_command_unchecked(lo, command, write_ok, response) ==
    IF ~lo.open \/ ~write_ok
    THEN [cmds |-> <<command>>, exc |-> "SerialException", response |-> <<>>]
    ELSE [cmds |-> <<command>>, exc |-> "none", response |-> response]

(***************************************************************************)
(* ArduinoLOController._send_command: ConnectionError unless the channel   *)
(* is open; the write itself may raise; otherwise the collected response.  *)
(***************************************************************************)
_send_command(lo, command, write_ok, response) ==
    IF ~lo.open THEN [cmds |-> <<>>, exc |-> "ConnectionError", response |-> <<>>]
    ELSE IF ~write_ok THEN [cmds |-> <<command>>, exc |-> "SerialException", response |-> <<>>]
    ELSE [cmds |-> <<command>>, exc |-> "none", response |-> response]

\* Mutant: a reply without acknowledgement counts as a failure.
set_frequency_pessimistic(lo, freq_mhz, write_ok, response) ==
    LET r == _send_command(lo, LOCmd("f", freq_mhz), write_ok, response)
    IN  IF r.exc # "none" THEN LOResult(lo, r.cmds, r.exc, FALSE)
        ELSE IF Contains("MHz", r.response) \/ Contains("Prog:", r.response)
             THEN LOResult([lo EXCEPT !.current_freq = <<freq_mhz>>], r.cmds, "none", TRUE)
        ELSE LOResult(lo, r.cmds, "none", FALSE)

\* ArduinoLOController.set_frequency
set_frequency(lo, freq_mhz, write_ok, response) ==
    LET r == _send_command(lo, LOCmd("f", freq_mhz), write_ok, response)
    IN  IF r.exc # "none" THEN LOResult(lo, r.cmds, r.exc, FALSE)
        ELSE IF Contains("MHz", r.response) \/ Contains("Prog:", r.response)
             THEN LOResult([lo EXCEPT !.current_freq = <<freq_mhz>>], r.cmds, "none", TRUE)
        ELSE IF Contains("ERR", r.response)
             THEN LOResult(lo, r.cmds, "none", FALSE)
        ELSE LOResult([lo EXCEPT !.current_freq = <<freq_mhz>>], r.cmds, "none", TRUE)

\* ArduinoLOController.set_power
set_power(lo, power_dbm, write_ok, response) ==
    LET r == _send_command(lo, LOCmd("p", <<power_dbm>>), write_ok, response)
    IN  IF r.exc # "none" THEN LOResult(lo, r.cmds, r.exc, FALSE)
        ELSE IF Contains("dBm", r.response) \/ Contains("Power", r.response)
             THEN LOResult([lo EXCEPT !.current_power = <<power_dbm>>], r.cmds, "none", TRUE)
        ELSE IF Contains("ERR", r.response)
             THEN LOResult(lo, r.cmds, "none", FALSE)
        ELSE LOResult([lo EXCEPT !.current_power = <<power_dbm>>], r.cmds, "none", TRUE)

(***************************************************************************)
(* The status reply, line by line.  FreqMatch is the group that            *)
(* r'Freq:\s+([\d.]+)\s+MHz' captures in a line and PowerMatch the group   *)
(* that r'Power:\s+([+-]?\d+)\s+dBm' captures (<<>> when the line does not *)
(* match); PyFloat and PyInt are float() and int() of a captured text.     *)
(***************************************************************************)
FreqMatch(line) ==
    CASE line = "Freq: 900.0 MHz" -> <<"900.0">>
      [] line = "Freq: 1.2.3 MHz" -> <<"1.2.3">>
      [] OTHER -> <<>>

PowerMatch(line) ==
    CASE line = "Power: +5 dBm" -> <<"+5">>
      [] line = "Power: -4 dBm" -> <<"-4">>
      [] OTHER -> <<>>

PyFloat(text) ==
    IF text = "900.0" THEN [ok |-> TRUE, value |-> <<900, 1>>]
    ELSE [ok |-> FALSE, value |-> <<0, 1>>]

PyInt(text) == IF text = "+5" THEN 5 ELSE -4

\* re.search: the first group captured, given what each line captures.
Search(groups) ==
    LET hits == {k \in 1..Len(groups) : groups[k] # <<>>}
    IN  IF hits = {} THEN <<>>
        ELSE groups[CHOOSE k \in hits : \A j \in hits : k <= j]

FreqSearch(response) == Search([k \in 1..Len(response) |-> FreqMatch(response[k])])

PowerSearch(response) == Search([k \in 1..Len(response) |-> PowerMatch(response[k])])

StatusResponses ==
    {<<>>, <<"Freq: 900.0 MHz", "Power: +5 dBm">>, <<"Freq: 900.0 MHz">>,
     <<"Power: -4 dBm">>, <<"Freq: abc MHz", "Power: +5 dBm">>,
     <<"Freq: 900.0 MHz", "Power: high dBm">>, <<"Freq: 1.2.3 MHz", "Power: +5 dBm">>,
     <<"ERR: unknown command">>}

\* Mutant: a field whose line did not parse is reset to None.
_get_status_resetting(lo, write_ok, response) ==
    LET r == _send_command(lo, LOCmd("s", <<>>), write_ok, response)
        freq_match == FreqSearch(r.response)
        power_match == PowerSearch(r.response)
        lo1 == IF freq_match # <<>> /\ PyFloat(freq_match[1]).ok
               THEN [lo EXCEPT !.current_freq = <<PyFloat(freq_match[1]).value>>]
               ELSE [lo EXCEPT !.current_freq = <<>>]
        lo2 == IF power_match # <<>>
               THEN [lo1 EXCEPT !.current_power = <<PyInt(power_match[1])>>]
               ELSE [lo1 EXCEPT !.current_power = <<>>]
    IN  IF r.exc # "none" THEN LOResult(lo, r.cmds, r.exc, FALSE)
        ELSE LOResult(lo2, r.cmds, "none", TRUE)

(***************************************************************************)
(* ArduinoLOController._get_status: query 's', then store the frequency    *)
(* when its line matches (float() of the group may raise ValueError) and   *)
(* after that the power when its line matches.                             *)
(***************************************************************************)
_get_status(lo, write_ok, response) ==
    LET r == _send_command(lo, LOCmd("s", <<>>), write_ok, response)
        freq_match == FreqSearch(r.response)
        power_match == PowerSearch(r.response)
        lo1 == IF freq_match # <<>>
               THEN [lo EXCEPT !.current_freq = <<PyFloat(freq_match[1]).value>>]
               ELSE lo
        lo2 == IF power_match # <<>>
               THEN [lo1 EXCEPT !.current_power = <<PyInt(power_match[1])>>]
               ELSE lo1
    IN  IF r.exc # "none" THEN LOResult(lo, r.cmds, r.exc, FALSE)
        ELSE IF freq_match # <<>> /\ ~PyFloat(freq_match[1]).ok
             THEN LOResult(lo, r.cmds, "ValueError", FALSE)
        ELSE LOResult(lo2, r.cmds, "none", TRUE)

(***************************************************************************)
(* ArduinoLOController.connect: open the port, then the status query; only *)
(* serial.SerialException is turned into ConnectionError, and the port     *)
(* stays open when the status query raises.                                *)
(***************************************************************************)
ArduinoConnectFails == {"none", "open", "status"}

arduino_connect(lo, fail, status) ==
    IF lo.open THEN LOResult(lo, <<>>, "none", TRUE)
    ELSE IF fail = "open" THEN LOResult(lo, <<LOCmd("open", <<>>)>>, "ConnectionError", FALSE)
    ELSE LET s == _get_status([lo EXCEPT !.open = TRUE], fail # "status", status)
         IN  LOResult(s.lo, <<LOCmd("open", <<>>)>> \o s.cmds,
                      IF s.exc = "SerialException" THEN "ConnectionError" ELSE s.exc, TRUE)

\* ArduinoLOController.disconnect: close the port when it is open.
arduino_disconnect(lo, close_ok) ==
    IF ~lo.open THEN LOResult(lo, <<>>, "none", TRUE)
    ELSE IF close_ok THEN LOResult([lo EXCEPT !.open = FALSE], <<LOCmd("close", <<>>)>>, "none", TRUE)
    ELSE LOResult(lo, <<LOCmd("close", <<>>)>>, "SerialException", FALSE)

(***************************************************************************)
(* `with ArduinoLOController(port) as lo: pass`: __enter__ calls connect   *)
(* and __exit__ calls disconnect; __exit__ runs only when __enter__        *)
(* returned.                                                               *)
(***************************************************************************)
arduino_with(lo, fail, status, close_ok) ==
    LET c == arduino_connect(lo, fail, status)
        d == arduino_disconnect(c.lo, close_ok)
    IN  IF c.exc # "none" THEN c
        ELSE LOResult(d.lo, c.cmds \o d.cmds, d.exc, d.ret)

\* Mutant: the getter refreshes the cache from the device first.
get_frequency_querying(lo) ==
    LET s == _get_status(lo, TRUE, <<"Freq: 900.0 MHz", "Power: +5 dBm">>)
    IN  LOResult(s.lo, s.cmds, s.exc, s.lo.current_freq)

\* ArduinoLOController.get_frequency / get_power: the cached value.
get_frequency(lo) == LOResult(lo, <<>>, "none", lo.current_freq)

get_power(lo) == LOResult(lo, <<>>, "none", lo.current_power)

(***************************************************************************)
(* What a band command meets: the write and the reply of the control       *)
(* command, then the write and the reply of the status query.              *)
(***************************************************************************)
ControlResponses ==
    {<<>>, <<"Band: B">>, <<"ERR: unknown command">>, <<"Band: B", "ERR: unknown command">>}

DefaultLOEnv ==
    [write |-> TRUE, response |-> <<>>, status_write |-> TRUE, status_response |-> <<>>]

BandEnvs ==
    {[DefaultLOEnv EXCEPT !.write = FALSE]}
    \cup {[DefaultLOEnv EXCEPT !.response = r, !.status_write = FALSE] : r \in ControlResponses}
    \cup {[DefaultLOEnv EXCEPT !.response = r, !.status_response = s] :
            r \in ControlResponses, s \in StatusResponses}

\* ArduinoLOController.reset_to_band_start
reset_to_band_start(lo, env) ==
    LET r == _send_command(lo, LOCmd("r", <<>>), env.write, env.response)
        s == _get_status(lo, env.status_write, env.status_response)
    IN  IF r.exc # "none" THEN LOResult(lo, r.cmds, r.exc, FALSE)
        ELSE IF s.exc # "none" THEN LOResult(s.lo, r.cmds \o s.cmds, s.exc, FALSE)
        ELSE LOResult(s.lo, r.cmds \o s.cmds, "none", ~Contains("ERR", r.response))

\* Mutant: the status query is skipped when the control reply reports an error.
toggle_band_no_resync(lo, env) ==
    LET r == _send_command(lo, LOCmd("a", <<>>), env.write, env.response)
        s == _get_status(lo, env.status_write, env.status_response)
    IN  IF r.exc # "none" THEN LOResult(lo, r.cmds, r.exc, FALSE)
        ELSE IF Contains("ERR", r.response) THEN LOResult(lo, r.cmds, "none", FALSE)
        ELSE IF s.exc # "none" THEN LOResult(s.lo, r.cmds \o s.cmds, s.exc, FALSE)
        ELSE LOResult(s.lo, r.cmds \o s.cmds, "none", TRUE)

\* ArduinoLOController.toggle_band
toggle_band(lo, env) ==
    LET r == _send_command(lo, LOCmd("a", <<>>), env.write, env.response)
        s == _get_status(lo, env.status_write, env.status_response)
    IN  IF r.exc # "none" THEN LOResult(lo, r.cmds, r.exc, FALSE)
        ELSE IF s.exc # "none" THEN LOResult(s.lo, r.cmds \o s.cmds, s.exc, FALSE)
        ELSE LOResult(s.lo, r.cmds \o s.cmds, "none", ~Contains("ERR", r.response))

(***************************************************************************)
(* Events of `trace`: which device, which command (with its argument),     *)
(* and for which point of the sweep (0 outside the sweep loop).            *)
(***************************************************************************)
LOEvents(cmds, pt) ==
    [k \in 1..Len(cmds) |-> [dev |-> "lo", cmd |-> cmds[k].cmd, arg |-> cmds[k].arg, pt |-> pt]]

SAEvents(cmds, pt) ==
    [k \in 1..Len(cmds) |-> [dev |-> "sa", cmd |-> cmds[k], arg |-> <<>>, pt |-> pt]]

SleepEvent(pt) == [dev |-> "host", cmd |-> "sleep", arg |-> <<>>, pt |-> pt]

(***************************************************************************)
(* Run configurations.  rbw and attenuation are <<>> for 'auto' and <<n>>  *)
(* for a number; frequencies are in units of the smallest step.            *)
(***************************************************************************)
Auto == <<>>

Configs ==
    [freq_start : {1}, freq_stop : 1..(1 + MaxSpan), freq_step : {1, 2},
     lo_power : {5}, averaging : {4}, rbw : {Auto, <<10>>}, attenuation : {Auto, <<20>>}]

\* Mutant: the end points are swapped, np.linspace(stop, start, num).
linspace_swapped(start, stop, num) ==
    [k \in 1..num |->
        IF num = 1 THEN <<stop, 1>>
        ELSE <<stop * (num - 1) + (k - 1) * (start - stop), num - 1>>]

\* np.linspace(start, stop, num): the k-th point as a fraction <<numerator, denominator>>.
linspace(start, stop, num) ==
    [k \in 1..num |->
        IF num = 1 THEN <<start, 1>>
        ELSE <<start * (num - 1) + (k - 1) * (stop - start), num - 1>>]

\* Mutant: the points are start + k * step, as np.arange would give them.
generate_frequency_list_arange(cfg) ==
    LET num_points == ((cfg.freq_stop - cfg.freq_start) \div cfg.freq_step) + 1
    IN  [k \in 1..num_points |-> <<cfg.freq_start + (k - 1) * cfg.freq_step, 1>>]

\* LOPowerSweep.generate_frequency_list
generate_frequency_list(cfg) ==
    LET num_points == ((cfg.freq_stop - cfg.freq_start) \div cfg.freq_step) + 1
    IN  linspace(cfg.freq_start, cfg.freq_stop, num_points)

(***************************************************************************)
(* LOPowerSweep.setup.  `env` gives what each call of setup meets.  The    *)
(* value set_power returns is not looked at.                               *)
(***************************************************************************)
SetupStatusResponses ==
    {<<>>, <<"Freq: 900.0 MHz", "Power: +5 dBm">>, <<"Freq: 1.2.3 MHz", "Power: +5 dBm">>}

SetupEnvs ==
    [arduino : ArduinoConnectFails, status : SetupStatusResponses,
     power_write : BOOLEAN, power_response : PowerResponses,
     tinysa : ConnectFails, rbw : BOOLEAN, attenuation : BOOLEAN]

SetupResult(lo, sa, events, exc, failed, rejected) ==
    [arduino |-> lo, tinysa |-> sa, events |-> events, exc |-> exc,
     status |-> [failed |-> failed, power_rejected |-> rejected]]

\* Mutant: the overrides are sent before connect applies its defaults.
setup_tinysa_defaults_last(cfg, env, lo, ev, rejected) ==
    LET r == IF cfg.rbw # Auto THEN set_rbw(NewTinySA, env.rbw)
             ELSE SAResult(NewTinySA, <<>>, "none")
        e1 == ev \o SAEvents(r.cmds, 0)
        a == IF cfg.attenuation # Auto THEN set_attenuation(r.sa, env.attenuation)
             ELSE SAResult(r.sa, <<>>, "none")
        e2 == e1 \o SAEvents(a.cmds, 0)
        c == tinysa_connect(a.sa, env.tinysa)
        e3 == e2 \o SAEvents(c.cmds, 0)
    IN  IF r.exc # "none" THEN SetupResult(lo, r.sa, e1, r.exc, "set_rbw", rejected)
        ELSE IF a.exc # "none" THEN SetupResult(lo, a.sa, e2, a.exc, "set_attenuation", rejected)
        ELSE IF c.exc # "none" THEN SetupResult(lo, c.sa, e3, c.exc, "tinysa_connect", rejected)
        ELSE SetupResult(lo, c.sa, e3, "none", "none", rejected)

\* LOPowerSweep.setup, lines 60-71: the analyzer proxy, its connect and the overrides.
setup_tinysa(cfg, env, lo, ev, rejected) ==
    LET c == tinysa_connect(NewTinySA, env.tinysa)
        e1 == ev \o SAEvents(c.cmds, 0)
        r == IF cfg.rbw # Auto THEN set_rbw(c.sa, env.rbw) ELSE SAResult(c.sa, <<>>, "none")
        e2 == e1 \o SAEvents(r.cmds, 0)
        a == IF cfg.attenuation # Auto THEN set_attenuation(r.sa, env.attenuation)
             ELSE SAResult(r.sa, <<>>, "none")
        e3 == e2 \o SAEvents(a.cmds, 0)
    IN  IF c.exc # "none" THEN SetupResult(lo, c.sa, e1, c.exc, "tinysa_connect", rejected)
        ELSE IF r.exc # "none" THEN SetupResult(lo, r.sa, e2, r.exc, "set_rbw", rejected)
        ELSE IF a.exc # "none" THEN SetupResult(lo, a.sa, e3, a.exc, "set_attenuation", rejected)
        ELSE SetupResult(lo, a.sa, e3, "none", "none", rejected)

setup(cfg, env) ==
    LET c == arduino_connect(NewArduino, env.arduino, env.status)
        e1 == LOEvents(c.cmds, 0)
        p == set_power(c.lo, cfg.lo_power, env.power_write, env.power_response)
        e2 == e1 \o LOEvents(p.cmds, 0)
    IN  IF c.exc # "none" THEN SetupResult(c.lo, NoTinySA, e1, c.exc, "arduino_connect", FALSE)
        ELSE IF p.exc # "none" THEN SetupResult(p.lo, NoTinySA, e2, p.exc, "set_power", FALSE)
        ELSE setup_tinysa(cfg, env, p.lo, e2, ~p.ret)

(***************************************************************************)
(* LOPowerSweep.measure_single_frequency                                   *)
(***************************************************************************)
FreqEnvs == [write : BOOLEAN, response : FreqResponses]

\* str(e) of the exceptions a point can meet.
Message(exc) ==
    CASE exc = "RuntimeError" -> "Measurement failed"
      [] exc = "ConnectionError" -> "Not connected"
      [] exc = "SerialException" -> "serial error"
      [] OTHER -> "sdk error"

PointResult(lo, events, exc, msg, power) ==
    [arduino |-> lo, events |-> events, exc |-> exc, msg |-> msg, power |-> power]

\* Mutant: the settling wait is taken before the result of set_frequency is looked at.
measure_single_frequency_wait_first(lo, sa, cfg, freq_mhz, pt, fenv, menv) ==
    LET f == set_frequency(lo, freq_mhz, fenv.write, fenv.response)
        e1 == LOEvents(f.cmds, pt)
        e2 == e1 \o <<SleepEvent(pt)>>
        m == measure_power_at_frequency(sa.connected, cfg.averaging, menv)
        e3 == e2 \o SAEvents(m.cmds, pt)
    IN  IF f.exc # "none" THEN PointResult(f.lo, e1, f.exc, Message(f.exc), 0)
        ELSE IF ~f.ret
             THEN PointResult(f.lo, e2, "RuntimeError", "Failed to set Arduino frequency", 0)
        ELSE IF m.exc # "none" THEN PointResult(f.lo, e3, m.exc, Message(m.exc), 0)
        ELSE PointResult(f.lo, e3, "none", "none", m.power)

\* Mutant: the analyzer is measured first and the oscillator is set afterwards.
measure_single_frequency_measure_first(lo, sa, cfg, freq_mhz, pt, fenv, menv) ==
    LET m == measure_power_at_frequency(sa.connected, cfg.averaging, menv)
        e1 == SAEvents(m.cmds, pt)
        f == set_frequency(lo, freq_mhz, fenv.write, fenv.response)
        e2 == e1 \o LOEvents(f.cmds, pt)
        e3 == e2 \o <<SleepEvent(pt)>>
    IN  IF m.exc # "none" THEN PointResult(lo, e1, m.exc, Message(m.exc), 0)
        ELSE IF f.exc # "none" THEN PointResult(f.lo, e2, f.exc, Message(f.exc), 0)
        ELSE IF ~f.ret
             THEN PointResult(f.lo, e2, "RuntimeError", "Failed to set Arduino frequency", 0)
        ELSE PointResult(f.lo, e3, "none", "none", m.power)

measure_single_frequency(lo, sa, cfg, freq_mhz, pt, fenv, menv) ==
    LET f == set_frequency(lo, freq_mhz, fenv.write, fenv.response)
        e1 == LOEvents(f.cmds, pt)
        e2 == e1 \o <<SleepEvent(pt)>>
        m == measure_power_at_frequency(sa.connected, cfg.averaging, menv)
        e3 == e2 \o SAEvents(m.cmds, pt)
    IN  IF f.exc # "none" THEN PointResult(f.lo, e1, f.exc, Message(f.exc), 0)
        ELSE IF ~f.ret
             THEN PointResult(f.lo, e1, "RuntimeError", "Failed to set Arduino frequency", 0)
        ELSE IF m.exc # "none" THEN PointResult(f.lo, e3, m.exc, Message(m.exc), 0)
        ELSE PointResult(f.lo, e3, "none", "none", m.power)

\* The records run_sweep appends: power_dbm <<>> is NaN, error <<>> is "no error key".
Measurement(cfg, freq_mhz, power) ==
    [frequency_mhz |-> freq_mhz, power_dbm |-> <<power>>,
     lo_power_setting |-> cfg.lo_power, error |-> <<>>]

ErrorRecord(cfg, freq_mhz, msg) ==
    [frequency_mhz |-> freq_mhz, power_dbm |-> <<>>,
     lo_power_setting |-> cfg.lo_power, error |-> <<msg>>]

(***************************************************************************)
(* Progress accounting of one iteration (lines 150-153): elapsed is what   *)
(* time.time() - start_time gave; both divisions are guarded.              *)
(***************************************************************************)
Elapsed == {-1, 0, 1}

\* Mutant: the rate is computed without the `elapsed > 0` guard.
progress_unguarded(i, total_points, elapsed) ==
    IF elapsed = 0 THEN "ZeroDivisionError" ELSE "none"

progress(i, total_points, elapsed) ==
    LET rate == IF elapsed > 0 THEN <<i, elapsed>> ELSE <<0, 1>>
    IN  IF rate[1] > 0
        THEN (IF rate[1] = 0 THEN "ZeroDivisionError" ELSE "none")
        ELSE "none"

(***************************************************************************)
(* One iteration of run_sweep's loop (lines 143-168): the try block        *)
(* appends the measurement and reports progress; `except Exception`        *)
(* appends an error record for whatever the try block raised.  The result  *)
(* is the log and the exception that leaves the iteration (none).          *)
(***************************************************************************)
IterationResult(res, exc) == [results |-> res, exc |-> exc]

\* Mutant: a failed point takes the place of the record before it.
iteration_overwrites(res, cfg, freq_mhz, i, total_points, r, elapsed) ==
    IF r.exc = "none"
    THEN IterationResult(Append(res, Measurement(cfg, freq_mhz, r.power)), "none")
    ELSE IF res = <<>>
         THEN IterationResult(<<ErrorRecord(cfg, freq_mhz, r.msg)>>, "none")
         ELSE IterationResult([res EXCEPT ![Len(res)] = ErrorRecord(cfg, freq_mhz, r.msg)],
                              "none")

\* Mutant: the handler is `except RuntimeError`, so other exceptions leave the loop.
iteration_runtime_error_only(res, cfg, freq_mhz, i, total_points, r, elapsed) ==
    IF r.exc = "none"
    THEN IterationResult(Append(res, Measurement(cfg, freq_mhz, r.power)), "none")
    ELSE IF r.exc = "RuntimeError"
         THEN IterationResult(Append(res, ErrorRecord(cfg, freq_mhz, r.msg)), "none")
         ELSE IterationResult(res, r.exc)

iteration(res, cfg, freq_mhz, i, total_points, r, elapsed) ==
    IF r.exc = "none"
    THEN LET appended == Append(res, Measurement(cfg, freq_mhz, r.power))
             p == progress(i, total_points, elapsed)
         IN  IF p = "none" THEN IterationResult(appended, "none")
             ELSE IterationResult(Append(appended, ErrorRecord(cfg, freq_mhz, p)), "none")
    ELSE IterationResult(Append(res, ErrorRecord(cfg, freq_mhz, r.msg)), "none")

\* The end of run_sweep (lines 170-172): total_points / elapsed_total.
sweep_summary(total_points, elapsed_total) ==
    IF elapsed_total = 0 THEN "ZeroDivisionError" ELSE "none"

(***************************************************************************)
(* LOPowerSweep.save_results: ValueError on an empty log, otherwise the    *)
(* file is written (which may fail).                                       *)
(***************************************************************************)
save_results(res, write_ok) ==
    IF res = <<>> THEN "ValueError"
    ELSE IF ~write_ok THEN "OSError"
    ELSE "none"

\* Mutant: no try around the disconnects, so a failing close skips the analyzer.
cleanup_unprotected(lo, sa, close_ok, resume_ok, disconnect_ok) ==
    LET a == IF lo.created THEN arduino_disconnect(lo, close_ok)
             ELSE LOResult(lo, <<>>, "none", TRUE)
        ea == IF lo.created
              THEN <<[dev |-> "lo", cmd |-> "disconnect", arg |-> <<>>, pt |-> 0]>>
                   \o LOEvents(a.cmds, 0)
              ELSE <<>>
        t == IF sa.created /\ a.exc = "none"
             THEN tinysa_disconnect(sa, resume_ok, disconnect_ok)
             ELSE SAResult(sa, <<>>, "none")
        et == IF sa.created /\ a.exc = "none"
              THEN <<[dev |-> "sa", cmd |-> "proxy disconnect", arg |-> <<>>, pt |-> 0]>>
                   \o SAEvents(t.cmds, 0)
              ELSE <<>>
    IN  [arduino |-> a.lo, tinysa |-> t.sa, events |-> ea \o et, exc |-> a.exc]

\* Mutant: both disconnects are attempted, then the oscillator's exception is raised.
cleanup_reraising(lo, sa, close_ok, resume_ok, disconnect_ok) ==
    LET a == IF lo.created THEN arduino_disconnect(lo, close_ok)
             ELSE LOResult(lo, <<>>, "none", TRUE)
        ea == IF lo.created
              THEN <<[dev |-> "lo", cmd |-> "disconnect", arg |-> <<>>, pt |-> 0]>>
                   \o LOEvents(a.cmds, 0)
              ELSE <<>>
        t == IF sa.created THEN tinysa_disconnect(sa, resume_ok, disconnect_ok)
             ELSE SAResult(sa, <<>>, "none")
        et == IF sa.created
              THEN <<[dev |-> "sa", cmd |-> "proxy disconnect", arg |-> <<>>, pt |-> 0]>>
                   \o SAEvents(t.cmds, 0)
              ELSE <<>>
    IN  [arduino |-> a.lo, tinysa |-> t.sa, events |-> ea \o et, exc |-> a.exc]

(***************************************************************************)
(* LOPowerSweep.cleanup: disconnect each proxy that exists; an Exception   *)
(* of a disconnect is printed.  `exc` is what leaves cleanup (nothing).    *)
(***************************************************************************)
cleanup(lo, sa, close_ok, resume_ok, disconnect_ok) ==
    LET a == IF lo.created THEN arduino_disconnect(lo, close_ok)
             ELSE LOResult(lo, <<>>, "none", TRUE)
        ea == IF lo.created
              THEN <<[dev |-> "lo", cmd |-> "disconnect", arg |-> <<>>, pt |-> 0]>>
                   \o LOEvents(a.cmds, 0)
              ELSE <<>>
        t == IF sa.created THEN tinysa_disconnect(sa, resume_ok, disconnect_ok)
             ELSE SAResult(sa, <<>>, "none")
        et == IF sa.created
              THEN <<[dev |-> "sa", cmd |-> "proxy disconnect", arg |-> <<>>, pt |-> 0]>>
                   \o SAEvents(t.cmds, 0)
              ELSE <<>>
    IN  [arduino |-> a.lo, tinysa |-> t.sa, events |-> ea \o et, exc |-> "none"]

(***************************************************************************)
(* The loop of _send_command (lines 87-105), one pass at a time.  Time is  *)
(* counted in ticks; every pass of the loop takes at least one (the sleep  *)
(* of the idle branch, the transfer of at least one byte in the reading    *)
(* branch), and a readline may block for as long as the whole timeout.     *)
(* `elapsed` is time.time() - start_time, kept up to TimeoutTicks.         *)
(***************************************************************************)
IdleCodec ==
    [phase |-> "idle", command |-> "none", written |-> 0, response_lines |-> <<>>,
     elapsed |-> 0, got_bytes |-> FALSE, reads |-> <<>>, end |-> "none", exc |-> "none"]

CodecCommands == {"s", "f 925.000"}

CodecLines == {"925.000 MHz", "ERR: unknown command"}

\* What one pass of the loop meets: in_waiting, what readline gives, how long it takes.
NoBytes == [avail |-> FALSE, read |-> "none", line |-> "", took |-> 1]

Polls ==
    {NoBytes}
    \cup {[avail |-> TRUE, read |-> "line", line |-> l, took |-> t] :
            l \in CodecLines, t \in {1, TimeoutTicks}}
    \cup {[avail |-> TRUE, read |-> r, line |-> "", took |-> 1] :
            r \in {"blank", "undecodable", "raise"}}

Min(a, b) == IF a < b THEN a ELSE b

\* What readline gave in a pass: the line, "" for a blank one, or the mark
\* of bytes that are not UTF-8.
Undecodable == "<undecodable>"

Received(p) ==
    CASE p.read = "line" -> p.line
      [] p.read = "blank" -> ""
      [] OTHER -> Undecodable

\* Lines 80-85: the check of the channel and the write.
send(c, lo, command, write_ok) ==
    IF ~lo.open
    THEN [c EXCEPT !.phase = "raised", !.command = command, !.end = "closed",
                   !.exc = "ConnectionError"]
    ELSE IF ~write_ok
         THEN [c EXCEPT !.phase = "raised", !.command = command, !.written = @ + 1,
                        !.end = "write", !.exc = "SerialException"]
         ELSE [c EXCEPT !.phase = "polling", !.command = command, !.written = @ + 1]

\* Mutant: bytes that are not UTF-8 end the command with the decoding error.
poll_undecodable_raises(c, p) ==
    LET later == [c EXCEPT !.elapsed = Min(@ + p.took, TimeoutTicks),
                           !.got_bytes = @ \/ p.avail,
                           !.reads = IF p.avail /\ p.read # "raise"
                                     THEN Append(@, Received(p)) ELSE @]
    IN  IF c.elapsed >= TimeoutTicks
        THEN [c EXCEPT !.phase = "returned", !.end = "timeout"]
        ELSE IF p.avail
             THEN CASE p.read = "raise" ->
                        [later EXCEPT !.phase = "raised", !.exc = "SerialException"]
                    [] p.read = "line" ->
                        [later EXCEPT !.response_lines = Append(@, p.line)]
                    [] p.read = "undecodable" ->
                        [later EXCEPT !.phase = "raised", !.exc = "UnicodeDecodeError"]
                    [] OTHER -> later
        ELSE IF c.response_lines # <<>>
             THEN [c EXCEPT !.phase = "returned", !.end = "quiescence"]
             ELSE later

\* Mutant: the overall timeout with nothing collected is reported as an error.
poll_timeout_raises(c, p) ==
    LET later == [c EXCEPT !.elapsed = Min(@ + p.took, TimeoutTicks),
                           !.got_bytes = @ \/ p.avail,
                           !.reads = IF p.avail /\ p.read # "raise"
                                     THEN Append(@, Received(p)) ELSE @]
    IN  IF c.elapsed >= TimeoutTicks
        THEN IF c.response_lines = <<>>
             THEN [c EXCEPT !.phase = "raised", !.exc = "TimeoutError"]
             ELSE [c EXCEPT !.phase = "returned", !.end = "timeout"]
        ELSE IF p.avail
             THEN CASE p.read = "raise" ->
                        [later EXCEPT !.phase = "raised", !.exc = "SerialException"]
                    [] p.read = "line" ->
                        [later EXCEPT !.response_lines = Append(@, p.line)]
                    [] OTHER -> later
        ELSE IF c.response_lines # <<>>
             THEN [c EXCEPT !.phase = "returned", !.end = "quiescence"]
             ELSE later

\* Mutant: an empty poll ends the collection whether or not a line was collected.
poll_break_when_idle(c, p) ==
    LET later == [c EXCEPT !.elapsed = Min(@ + p.took, TimeoutTicks),
                           !.got_bytes = @ \/ p.avail,
                           !.reads = IF p.avail /\ p.read # "raise"
                                     THEN Append(@, Received(p)) ELSE @]
    IN  IF c.elapsed >= TimeoutTicks
        THEN [c EXCEPT !.phase = "returned", !.end = "timeout"]
        ELSE IF p.avail
             THEN CASE p.read = "raise" ->
                        [later EXCEPT !.phase = "raised", !.exc = "SerialException"]
                    [] p.read = "line" ->
                        [later EXCEPT !.response_lines = Append(@, p.line)]
                    [] OTHER -> later
        ELSE [c EXCEPT !.phase = "returned", !.end = "quiescence"]

(***************************************************************************)
(* Lines 91-105: the test of the while loop and one pass of its body.  The *)
(* loop is left when the timeout has elapsed, or by the break of an empty  *)
(* poll once a line is collected; a blank or undecodable line is skipped.  *)
(***************************************************************************)
poll(c, p) ==
    LET later == [c EXCEPT !.elapsed = Min(@ + p.took, TimeoutTicks),
                           !.got_bytes = @ \/ p.avail,
                           !.reads = IF p.avail /\ p.read # "raise"
                                     THEN Append(@, Received(p)) ELSE @]
    IN  IF c.elapsed >= TimeoutTicks
        THEN [c EXCEPT !.phase = "returned", !.end = "timeout"]
        ELSE IF p.avail
             THEN CASE p.read = "raise" ->
                        [later EXCEPT !.phase = "raised", !.exc = "SerialException"]
                    [] p.read = "line" ->
                        [later EXCEPT !.response_lines = Append(@, p.line)]
                    [] OTHER -> later
        ELSE IF c.response_lines # <<>>
             THEN [c EXCEPT !.phase = "returned", !.end = "quiescence"]
             ELSE later

(***************************************************************************)
(* The latest direct call on an oscillator proxy, with the proxy it was    *)
(* made on and the inputs it met, and what the calls so far stored.        *)
(***************************************************************************)
NoLOCall ==
    [op |-> "none", arg |-> <<>>, before |-> NoArduino, cmds |-> <<>>, exc |-> "none",
     ret |-> FALSE, env |-> DefaultLOEnv]

NothingStored == [freq |-> <<>>, power |-> <<>>]

(***************************************************************************)
(* run(): setup, run_sweep, save_results, and cleanup in the finally.      *)
(***************************************************************************)
NoCall == [op |-> "none", cmds |-> <<>>, exc |-> "none", cause |-> "none", power |-> 0,
           freq |-> 0, connected |-> FALSE, averaging |-> 0, env |-> DefaultEnv]

NoStatus == [failed |-> "none", power_rejected |-> FALSE]

\* No dual-power loop is running: no level left, no handle left open.
NoDual == [levels |-> <<>>, sweep |-> 0, stale |-> [lo |-> 0, sa |-> 0]]

\* No stand-alone script is running.
NoScript ==
    [open |-> FALSE, opened |-> FALSE, i |-> 0, sweep_count |-> 0, last |-> <<>>,
     leaving |-> "none", exc |-> "none", ret |-> "none"]

NoWindow ==
    [center_hz |-> 0, span_hz |-> 0, start_hz |-> 0, stop_hz |-> 0, computed |-> FALSE]

\* The call of save_results, as an event of `trace`.
SaveEvent == [dev |-> "host", cmd |-> "save_results", arg |-> <<>>, pt |-> 0]

\* Mutant: the status is non-zero as soon as a point left an error record.
main_exit_counting_errors(exc, res) ==
    IF exc = "none" /\ \A k \in 1..Len(res) : res[k].error = <<>> THEN 0 ELSE 1

(***************************************************************************)
(* main and the __main__ block for one run(): main returns 0 when run()    *)
(* returned and sys.exit passes it on; an Exception out of run() is        *)
(* caught by the __main__ block, which exits with 1.  The log is not       *)
(* looked at.                                                              *)
(***************************************************************************)
main_exit(exc, res) == IF exc = "none" THEN 0 ELSE 1

Init ==
    /\ pc = "setup"
    /\ config \in Configs
    /\ arduino = NoArduino
    /\ tinysa = NoTinySA
    /\ results = <<>>
    /\ frequencies = <<>>
    /\ idx = 0
    /\ trace = <<>>
    /\ setupStatus = NoStatus
    /\ pending = "none"
    /\ retval = "none"
    /\ saCall = NoCall
    /\ loCall = NoLOCall
    /\ lastStored = NothingStored
    /\ codec = IdleCodec
    /\ exit_status = <<>>
    /\ window = NoWindow
    /\ dual = NoDual
    /\ script = NoScript

Setup ==
    /\ pc = "setup"
    /\ \E env \in SetupEnvs :
        LET r == setup(config, env)
        IN  /\ arduino' = r.arduino
            /\ tinysa' = r.tinysa
            /\ trace' = trace \o r.events
            /\ setupStatus' = r.status
            /\ pending' = r.exc
            /\ pc' = IF r.exc = "none" THEN "sweep_start" ELSE "cleanup"
    /\ UNCHANGED <<config, results, frequencies, idx, retval, saCall, loVars, mainVars>>

\* run_sweep, lines 130-141: the points are generated once.
SweepStart ==
    /\ pc = "sweep_start"
    /\ frequencies' = generate_frequency_list(config)
    /\ idx' = 1
    /\ pc' = "sweep"
    /\ UNCHANGED <<config, arduino, tinysa, results, trace, setupStatus, pending, retval,
                   saCall, loVars, mainVars>>

(***************************************************************************)
(* What a point of the sweep can meet.  The sweep draws one environment    *)
(* per path of set_frequency and of measure_peak_power; the analyzer is    *)
(* only consulted (and the clock only read) when the code gets that far.   *)
(***************************************************************************)
SweepMeasureEnvs ==
    {[DefaultEnv EXCEPT !.calc = FALSE], [DefaultEnv EXCEPT !.pause = FALSE],
     [DefaultEnv EXCEPT !.resume = FALSE],
     [DefaultEnv EXCEPT !.hop1 = Raised, !.resume_except = FALSE]}
    \cup {[DefaultEnv EXCEPT !.hop1 = h1, !.hop2 = h2] :
            h1 \in {Raised, Returned(<<BadToken>>), Returned(<<>>), Returned(<<Num(1)>>)},
            h2 \in {Raised, Returned(<<BadToken>>), Returned(<<>>), Returned(<<Num(1)>>),
                    Returned(<<Num(2)>>)}}

SweepFreqEnvs ==
    {[write |-> FALSE, response |-> <<>>]}
    \cup {[write |-> TRUE, response |-> r] :
            r \in {<<>>, <<"925.000 MHz">>, <<"ERR: unknown command">>}}

\* run_sweep, lines 143-168: one iteration of the loop.
SweepPoint ==
    /\ pc = "sweep"
    /\ idx <= Len(frequencies)
    /\ \E fenv \in SweepFreqEnvs :
        LET freq == frequencies[idx]
            f == set_frequency(arduino, freq, fenv.write, fenv.response)
            reached == f.exc = "none" /\ f.ret
        IN  \E menv \in (IF reached THEN SweepMeasureEnvs ELSE {DefaultEnv}) :
            LET r == measure_single_frequency(arduino, tinysa, config, freq, idx, fenv, menv)
            IN  \E elapsed \in (IF r.exc = "none" THEN Elapsed ELSE {1}) :
                LET it == iteration(results, config, freq, idx, Len(frequencies), r, elapsed)
                IN  /\ arduino' = r.arduino
                    /\ trace' = trace \o r.events
                    /\ results' = it.results
                    /\ pending' = it.exc
                    /\ pc' = IF it.exc = "none" THEN "sweep" ELSE "cleanup"
    /\ idx' = idx + 1
    /\ UNCHANGED <<config, tinysa, frequencies, setupStatus, retval, saCall, loVars, mainVars>>

\* run_sweep, lines 170-172: the loop is over.
SweepEnd ==
    /\ pc = "sweep"
    /\ idx > Len(frequencies)
    /\ \E elapsed_total \in Elapsed :
        LET e == sweep_summary(Len(frequencies), elapsed_total)
        IN  /\ pending' = e
            /\ pc' = IF e = "none" THEN "save" ELSE "cleanup"
    /\ UNCHANGED <<config, arduino, tinysa, results, frequencies, idx, trace, setupStatus,
                   retval, saCall, loVars, mainVars>>

Save ==
    /\ pc = "save"
    /\ \E write_ok \in BOOLEAN :
        LET e == save_results(results, write_ok)
        IN  /\ pending' = e
            /\ retval' = IF e = "none" THEN "output_file" ELSE "none"
    /\ trace' = Append(trace, SaveEvent)
    /\ pc' = "cleanup"
    /\ UNCHANGED <<config, arduino, tinysa, results, frequencies, idx, setupStatus,
                   saCall, loVars, mainVars>>

Cleanup ==
    /\ pc = "cleanup"
    /\ \E close_ok \in BOOLEAN, resume_ok \in BOOLEAN, disconnect_ok \in BOOLEAN :
        LET c == cleanup(arduino, tinysa, close_ok, resume_ok, disconnect_ok)
        IN  /\ arduino' = c.arduino
            /\ tinysa' = c.tinysa
            /\ trace' = trace \o c.events
            /\ pending' = IF c.exc = "none" THEN pending ELSE c.exc
            /\ retval' = IF c.exc = "none" THEN retval ELSE "none"
    /\ pc' = "done"
    /\ UNCHANGED <<config, results, frequencies, idx, setupStatus, saCall, loVars, mainVars>>

\* main, lines 421-426, and the __main__ block: the process exits.
Exit ==
    /\ pc = "done"
    /\ exit_status' = <<main_exit(pending, results)>>
    /\ pc' = "exited"
    /\ UNCHANGED <<config, arduino, tinysa, results, frequencies, idx, trace, setupStatus,
                   pending, retval, saCall, loVars, window, scriptVars>>

Next == Setup \/ SweepStart \/ SweepPoint \/ SweepEnd \/ Save \/ Cleanup \/ Exit

Spec == Init /\ [][Next]_vars

(***************************************************************************)
(* A client using one TinySAController directly: connect, disconnect and   *)
(* measure_peak_power in any order.  saCall keeps the latest operation     *)
(* with its inputs.  A measurement changes no proxy state, so the          *)
(* measurement that would follow another one starts from a proxy state     *)
(* that is measured in anyway: it is not drawn again.                      *)
(***************************************************************************)
Averagings == {-1, 0, 1, 4, 7, 16}

DirectCall(op, cmds, exc, connected) ==
    [NoCall EXCEPT !.op = op, !.cmds = cmds, !.exc = exc, !.connected = connected]

InitSA ==
    /\ pc = "proxy"
    /\ config = CHOOSE c \in Configs : TRUE
    /\ arduino = NoArduino
    /\ tinysa = NewTinySA
    /\ results = <<>>
    /\ frequencies = <<>>
    /\ idx = 0
    /\ trace = <<>>
    /\ setupStatus = NoStatus
    /\ pending = "none"
    /\ retval = "none"
    /\ saCall = NoCall
    /\ loCall = NoLOCall
    /\ lastStored = NothingStored
    /\ codec = IdleCodec
    /\ exit_status = <<>>
    /\ window = NoWindow
    /\ dual = NoDual
    /\ script = NoScript

SAConnect ==
    /\ pc = "proxy"
    /\ \E fail \in ConnectFails :
        LET r == tinysa_connect(tinysa, fail)
        IN  /\ tinysa' = r.sa
            /\ saCall' = DirectCall("connect", r.cmds, r.exc, tinysa.connected)
    /\ UNCHANGED <<pc, config, arduino, results, frequencies, idx, trace, setupStatus,
                   pending, retval, loVars, mainVars>>

SADisconnect ==
    /\ pc = "proxy"
    /\ \E resume_ok \in BOOLEAN, disconnect_ok \in BOOLEAN :
        LET r == tinysa_disconnect(tinysa, resume_ok, disconnect_ok)
        IN  /\ tinysa' = r.sa
            /\ saCall' = DirectCall("disconnect", r.cmds, r.exc, tinysa.connected)
    /\ UNCHANGED <<pc, config, arduino, results, frequencies, idx, trace, setupStatus,
                   pending, retval, loVars, mainVars>>

SAMeasure ==
    /\ pc = "proxy"
    /\ saCall.op \notin {"measure", "quick_scan"}
    /\ \E averaging \in Averagings :
       \E env \in (IF tinysa.connected THEN MeasureEnvs ELSE {DefaultEnv}) :
        LET r == measure_peak_power(tinysa.connected, averaging, env)
        IN  saCall' = [op |-> "measure", cmds |-> r.cmds, exc |-> r.exc, cause |-> r.cause,
                       power |-> r.power, freq |-> r.freq, connected |-> tinysa.connected,
                       averaging |-> averaging, env |-> env]
    /\ UNCHANGED <<pc, config, arduino, tinysa, results, frequencies, idx, trace, setupStatus,
                   pending, retval, loVars, mainVars>>

SAQuickScan ==
    /\ pc = "proxy"
    /\ saCall.op \notin {"measure", "quick_scan"}
    /\ \E env \in (IF tinysa.connected THEN ScanEnvs ELSE {DefaultEnv}) :
        LET r == quick_scan(tinysa.connected, env)
        IN  saCall' = [op |-> "quick_scan", cmds |-> r.cmds, exc |-> r.exc, cause |-> r.cause,
                       power |-> r.power, freq |-> r.freq, connected |-> tinysa.connected,
                       averaging |-> 0, env |-> env]
    /\ UNCHANGED <<pc, config, arduino, tinysa, results, frequencies, idx, trace, setupStatus,
                   pending, retval, loVars, mainVars>>

NextSA == SAConnect \/ SADisconnect \/ SAMeasure \/ SAQuickScan

SpecSA == InitSA /\ [][NextSA]_vars

(***************************************************************************)
(* A client using one ArduinoLOController directly, every public operation *)
(* in any order.  loCall keeps the latest operation; lastStored follows    *)
(* what the operations reported: a set that returned True stores its       *)
(* argument, a status reply stores each field whose line parsed.           *)
(***************************************************************************)
LOFreqs == {<<925, 1>>, <<1850, 1>>}

LOPowers == {5, -4}

LOCallOf(op, arg, r, env) ==
    [op |-> op, arg |-> arg, before |-> arduino, cmds |-> r.cmds, exc |-> r.exc,
     ret |-> r.ret, env |-> env]

\* The value a status reply holds for a field (<<>> when its line does not parse).
ParsedFreq(response) ==
    LET m == FreqSearch(response)
    IN  IF m # <<>> /\ PyFloat(m[1]).ok THEN <<PyFloat(m[1]).value>> ELSE <<>>

ParsedPower(response) ==
    LET m == PowerSearch(response)
    IN  IF m # <<>> THEN <<PyInt(m[1])>> ELSE <<>>

\* lastStored after a status query that was answered with `response`.
StoreStatus(st, response, exc) ==
    [freq |-> IF ParsedFreq(response) # <<>> THEN ParsedFreq(response) ELSE st.freq,
     power |-> IF exc = "none" /\ ParsedPower(response) # <<>>
               THEN ParsedPower(response) ELSE st.power]

SetEnvs(responses) ==
    IF arduino.open
    THEN {[DefaultLOEnv EXCEPT !.write = FALSE]}
         \cup {[DefaultLOEnv EXCEPT !.response = r] : r \in responses}
    ELSE {DefaultLOEnv}

InitLO ==
    /\ pc = "lo_proxy"
    /\ config = CHOOSE c \in Configs : TRUE
    /\ arduino = NewArduino
    /\ tinysa = NoTinySA
    /\ results = <<>>
    /\ frequencies = <<>>
    /\ idx = 0
    /\ trace = <<>>
    /\ setupStatus = NoStatus
    /\ pending = "none"
    /\ retval = "none"
    /\ saCall = NoCall
    /\ loCall = NoLOCall
    /\ lastStored = NothingStored
    /\ codec = IdleCodec
    /\ exit_status = <<>>
    /\ window = NoWindow
    /\ dual = NoDual
    /\ script = NoScript

LOFrame ==
    UNCHANGED <<pc, config, tinysa, results, frequencies, idx, trace, setupStatus, pending,
                retval, saCall, codec, mainVars>>

LOConnect ==
    /\ pc = "lo_proxy"
    /\ \E fail \in ArduinoConnectFails :
       \E status \in (IF fail = "none" /\ ~arduino.open THEN StatusResponses ELSE {<<>>}) :
        LET r == arduino_connect(arduino, fail, status)
            env == [write |-> fail # "open", response |-> <<>>,
                    status_write |-> fail # "status", status_response |-> status]
        IN  /\ arduino' = r.lo
            /\ loCall' = LOCallOf("connect", <<>>, r, env)
            /\ lastStored' = IF fail = "none" /\ ~arduino.open
                             THEN StoreStatus(lastStored, status, r.exc)
                             ELSE lastStored
    /\ LOFrame

\* A with block on the proxy, its body empty.
LOWith ==
    /\ pc = "lo_proxy"
    /\ \E fail \in ArduinoConnectFails, close_ok \in BOOLEAN :
       \E status \in (IF fail = "none" /\ ~arduino.open THEN StatusResponses ELSE {<<>>}) :
        LET r == arduino_with(arduino, fail, status, close_ok)
            env == [write |-> fail # "open", response |-> <<>>,
                    status_write |-> fail # "status", status_response |-> status]
        IN  /\ arduino' = r.lo
            /\ loCall' = LOCallOf("with", <<>>, r, env)
            /\ lastStored' = IF fail = "none" /\ ~arduino.open
                             THEN StoreStatus(lastStored, status,
                                              arduino_connect(arduino, fail, status).exc)
                             ELSE lastStored
    /\ LOFrame

LODisconnect ==
    /\ pc = "lo_proxy"
    /\ \E close_ok \in BOOLEAN :
        LET r == arduino_disconnect(arduino, close_ok)
        IN  /\ arduino' = r.lo
            /\ loCall' = LOCallOf("disconnect", <<>>, r, [DefaultLOEnv EXCEPT !.write = close_ok])
    /\ UNCHANGED lastStored
    /\ LOFrame

LOSetFrequency ==
    /\ pc = "lo_proxy"
    /\ \E freq_mhz \in LOFreqs, env \in SetEnvs(FreqResponses) :
        LET r == set_frequency(arduino, freq_mhz, env.write, env.response)
        IN  /\ arduino' = r.lo
            /\ loCall' = LOCallOf("set_frequency", <<freq_mhz>>, r, env)
            /\ lastStored' = IF r.exc = "none" /\ r.ret
                             THEN [lastStored EXCEPT !.freq = <<freq_mhz>>]
                             ELSE lastStored
    /\ LOFrame

LOSetPower ==
    /\ pc = "lo_proxy"
    /\ \E power_dbm \in LOPowers, env \in SetEnvs(PowerResponses) :
        LET r == set_power(arduino, power_dbm, env.write, env.response)
        IN  /\ arduino' = r.lo
            /\ loCall' = LOCallOf("set_power", <<power_dbm>>, r, env)
            /\ lastStored' = IF r.exc = "none" /\ r.ret
                             THEN [lastStored EXCEPT !.power = <<power_dbm>>]
                             ELSE lastStored
    /\ LOFrame

LOGetFrequency ==
    /\ pc = "lo_proxy"
    /\ LET r == get_frequency(arduino)
       IN  /\ arduino' = r.lo
           /\ loCall' = LOCallOf("get_frequency", <<>>, r, DefaultLOEnv)
    /\ UNCHANGED lastStored
    /\ LOFrame

LOGetPower ==
    /\ pc = "lo_proxy"
    /\ LET r == get_power(arduino)
       IN  /\ arduino' = r.lo
           /\ loCall' = LOCallOf("get_power", <<>>, r, DefaultLOEnv)
    /\ UNCHANGED lastStored
    /\ LOFrame

\* Whether the status query of a band command was answered.
StatusAnswered(lo, env) == lo.open /\ env.write /\ env.status_write

LOReset ==
    /\ pc = "lo_proxy"
    /\ \E env \in (IF arduino.open THEN BandEnvs ELSE {DefaultLOEnv}) :
        LET r == reset_to_band_start(arduino, env)
        IN  /\ arduino' = r.lo
            /\ loCall' = LOCallOf("reset_to_band_start", <<>>, r, env)
            /\ lastStored' = IF StatusAnswered(arduino, env)
                             THEN StoreStatus(lastStored, env.status_response, r.exc)
                             ELSE lastStored
    /\ LOFrame

LOToggle ==
    /\ pc = "lo_proxy"
    /\ \E env \in (IF arduino.open THEN BandEnvs ELSE {DefaultLOEnv}) :
        LET r == toggle_band(arduino, env)
        IN  /\ arduino' = r.lo
            /\ loCall' = LOCallOf("toggle_band", <<>>, r, env)
            /\ lastStored' = IF StatusAnswered(arduino, env)
                             THEN StoreStatus(lastStored, env.status_response, r.exc)
                             ELSE lastStored
    /\ LOFrame

NextLO ==
    \/ LOConnect \/ LODisconnect \/ LOSetFrequency \/ LOSetPower
    \/ LOGetFrequency \/ LOGetPower \/ LOReset \/ LOToggle \/ LOWith

SpecLO == InitLO /\ [][NextLO]_vars

(***************************************************************************)
(* One _send_command after the other on a proxy whose channel is open or   *)
(* not: the write, the passes of the polling loop, and the return to the   *)
(* caller.  The program is sequential and keeps running, so a loop that    *)
(* can take a pass does take it.                                           *)
(***************************************************************************)
InitCodec ==
    /\ pc = "codec"
    /\ config = CHOOSE c \in Configs : TRUE
    /\ arduino \in {NewArduino, [NewArduino EXCEPT !.open = TRUE]}
    /\ tinysa = NoTinySA
    /\ results = <<>>
    /\ frequencies = <<>>
    /\ idx = 0
    /\ trace = <<>>
    /\ setupStatus = NoStatus
    /\ pending = "none"
    /\ retval = "none"
    /\ saCall = NoCall
    /\ loCall = NoLOCall
    /\ lastStored = NothingStored
    /\ codec = IdleCodec
    /\ exit_status = <<>>
    /\ window = NoWindow
    /\ dual = NoDual
    /\ script = NoScript

CodecFrame ==
    UNCHANGED <<pc, config, arduino, tinysa, results, frequencies, idx, trace, setupStatus,
                pending, retval, saCall, loCall, lastStored, mainVars>>

CodecSend ==
    /\ pc = "codec"
    /\ codec.phase = "idle"
    /\ \E command \in CodecCommands, write_ok \in BOOLEAN :
        codec' = send(codec, arduino, command, write_ok)
    /\ CodecFrame

CodecPoll ==
    /\ pc = "codec"
    /\ codec.phase = "polling"
    /\ \E p \in Polls : codec' = poll(codec, p)
    /\ CodecFrame

\* The caller has the response (or the exception); the next command may follow.
CodecReturn ==
    /\ pc = "codec"
    /\ codec.phase \in {"returned", "raised"}
    /\ codec' = IdleCodec
    /\ CodecFrame

NextCodec == CodecSend \/ CodecPoll \/ CodecReturn

SpecCodec == InitCodec /\ [][NextCodec]_vars /\ WF_vars(CodecPoll)

(***************************************************************************)
(* generate_frequency_list on its own, for every start, stop >= start and  *)
(* step > 0 of a small range.                                              *)
(***************************************************************************)
GenConfigs ==
    {c \in [freq_start : 0..2, freq_stop : 0..(2 + MaxGenSpan), freq_step : 1..MaxGenStep,
            lo_power : {5}, averaging : {4}, rbw : {Auto}, attenuation : {Auto}] :
        c.freq_stop >= c.freq_start /\ c.freq_stop - c.freq_start <= MaxGenSpan}

InitGen ==
    /\ pc = "generate"
    /\ config \in GenConfigs
    /\ arduino = NoArduino
    /\ tinysa = NoTinySA
    /\ results = <<>>
    /\ frequencies = <<>>
    /\ idx = 0
    /\ trace = <<>>
    /\ setupStatus = NoStatus
    /\ pending = "none"
    /\ retval = "none"
    /\ saCall = NoCall
    /\ loCall = NoLOCall
    /\ lastStored = NothingStored
    /\ codec = IdleCodec
    /\ exit_status = <<>>
    /\ window = NoWindow
    /\ dual = NoDual
    /\ script = NoScript

Generate ==
    /\ pc = "generate"
    /\ frequencies' = generate_frequency_list(config)
    /\ pc' = "generated"
    /\ UNCHANGED <<config, arduino, tinysa, results, idx, trace, setupStatus, pending, retval,
                   saCall, loVars, mainVars>>

NextGen == Generate

SpecGen == InitGen /\ [][NextGen]_vars

(***************************************************************************)
(* The window computation of measure_peak_power on its own, for integer    *)
(* centers and spans of a small range.                                     *)
(***************************************************************************)
InitWindow ==
    /\ pc = "window"
    /\ config = CHOOSE c \in Configs : TRUE
    /\ arduino = NoArduino
    /\ tinysa = NoTinySA
    /\ results = <<>>
    /\ frequencies = <<>>
    /\ idx = 0
    /\ trace = <<>>
    /\ setupStatus = NoStatus
    /\ pending = "none"
    /\ retval = "none"
    /\ saCall = NoCall
    /\ loCall = NoLOCall
    /\ lastStored = NothingStored
    /\ codec = IdleCodec
    /\ exit_status = <<>>
    /\ window \in {[NoWindow EXCEPT !.center_hz = c, !.span_hz = sp] :
                        c \in 0..MaxCenterHz, sp \in 0..MaxSpanHz}
    /\ dual = NoDual
    /\ script = NoScript

ComputeWindow ==
    /\ pc = "window"
    /\ ~window.computed
    /\ LET w == window_hz(window.center_hz, window.span_hz)
       IN  window' = [window EXCEPT !.start_hz = w.start_hz, !.stop_hz = w.stop_hz,
                                    !.computed = TRUE]
    /\ UNCHANGED <<pc, config, arduino, tinysa, results, frequencies, idx, trace, setupStatus,
                   pending, retval, saCall, loVars, exit_status, scriptVars>>

NextWindow == ComputeWindow

SpecWindow == InitWindow /\ [][NextWindow]_vars

(***************************************************************************)
(* main in dual-power mode (lines 399-418): one LOPowerSweep and one run() *)
(* per power level, the next only when the run before it returned.  The    *)
(* proxies of a finished sweep are dropped when `sweep` is rebound; a      *)
(* channel they still hold open is released then only if the runtime       *)
(* finalizes them at once (`collected`), which the code does not ask for.  *)
(* `dual.stale` counts the handles dropped proxies still hold, per         *)
(* channel; `trace` is the log of the current sweep.                       *)
(***************************************************************************)
PowerLevels == <<5, -4>>

InitDual ==
    /\ pc = "dual_next"
    /\ config \in Configs
    /\ arduino = NoArduino
    /\ tinysa = NoTinySA
    /\ results = <<>>
    /\ frequencies = <<>>
    /\ idx = 0
    /\ trace = <<>>
    /\ setupStatus = NoStatus
    /\ pending = "none"
    /\ retval = "none"
    /\ saCall = NoCall
    /\ loCall = NoLOCall
    /\ lastStored = NothingStored
    /\ codec = IdleCodec
    /\ exit_status = <<>>
    /\ window = NoWindow
    /\ dual = [NoDual EXCEPT !.levels = PowerLevels]
    /\ script = NoScript

Held(is_open, collected) == IF is_open /\ ~collected THEN 1 ELSE 0

\* Lines 403-409: the next power level and a new LOPowerSweep.
DualNext ==
    /\ pc = "dual_next"
    /\ dual.levels # <<>>
    /\ \E collected \in BOOLEAN :
        dual' = [levels |-> Tail(dual.levels),
                 sweep |-> dual.sweep + 1,
                 stale |-> [lo |-> dual.stale.lo + Held(arduino.open, collected),
                            sa |-> dual.stale.sa + Held(tinysa.link, collected)]]
    /\ config' = [config EXCEPT !.lo_power = Head(dual.levels)]
    /\ arduino' = NoArduino
    /\ tinysa' = NoTinySA
    /\ results' = <<>>
    /\ frequencies' = <<>>
    /\ idx' = 0
    /\ trace' = <<>>
    /\ setupStatus' = NoStatus
    /\ pending' = "none"
    /\ retval' = "none"
    /\ pc' = "dual_setup"
    /\ UNCHANGED <<saCall, loVars, exit_status, window, script>>

\* run(), line 260: setup of the sweep.
DualSetup ==
    /\ pc = "dual_setup"
    /\ \E env \in SetupEnvs :
        LET r == setup(config, env)
        IN  /\ arduino' = r.arduino
            /\ tinysa' = r.tinysa
            /\ trace' = trace \o r.events
            /\ setupStatus' = r.status
            /\ pending' = r.exc
            /\ pc' = IF r.exc = "none" THEN "dual_sweep" ELSE "dual_cleanup"
    /\ UNCHANGED <<config, results, frequencies, idx, retval, saCall, loVars, mainVars>>

(***************************************************************************)
(* run(), lines 261-263: run_sweep and save_results, for a sweep in which  *)
(* every point is measured; no point opens or closes a channel.            *)
(***************************************************************************)
DualSweep ==
    /\ pc = "dual_sweep"
    /\ \E elapsed_total \in Elapsed, write_ok \in BOOLEAN :
        LET f == generate_frequency_list(config)
            res == [k \in 1..Len(f) |-> Measurement(config, f[k], 1)]
            e == sweep_summary(Len(f), elapsed_total)
            s == IF e = "none" THEN save_results(res, write_ok) ELSE e
        IN  /\ frequencies' = f
            /\ idx' = Len(f) + 1
            /\ results' = res
            /\ pending' = s
            /\ retval' = IF s = "none" THEN "output_file" ELSE "none"
    /\ pc' = "dual_cleanup"
    /\ UNCHANGED <<config, arduino, tinysa, trace, setupStatus, saCall, loVars, mainVars>>

\* run(), lines 264-265: cleanup; the loop goes on only when run() returned.
DualCleanup ==
    /\ pc = "dual_cleanup"
    /\ \E close_ok \in BOOLEAN, resume_ok \in BOOLEAN, disconnect_ok \in BOOLEAN :
        LET c == cleanup(arduino, tinysa, close_ok, resume_ok, disconnect_ok)
            exc == IF c.exc = "none" THEN pending ELSE c.exc
        IN  /\ arduino' = c.arduino
            /\ tinysa' = c.tinysa
            /\ trace' = trace \o c.events
            /\ pending' = exc
            /\ retval' = IF c.exc = "none" THEN retval ELSE "none"
            /\ pc' = IF exc = "none" THEN "dual_next" ELSE "dual_exit"
    /\ UNCHANGED <<config, results, frequencies, idx, setupStatus, saCall, loVars, mainVars>>

\* Lines 425-426 and the __main__ block: the loop is over, or a run raised.
DualExit ==
    /\ \/ pc = "dual_exit"
       \/ pc = "dual_next" /\ dual.levels = <<>>
    /\ exit_status' = <<main_exit(pending, results)>>
    /\ pc' = "exited"
    /\ UNCHANGED <<config, arduino, tinysa, results, frequencies, idx, trace, setupStatus,
                   pending, retval, saCall, loVars, window, scriptVars>>

NextDual == DualNext \/ DualSetup \/ DualSweep \/ DualCleanup \/ DualExit

SpecDual == InitDual /\ [][NextDual]_vars

(***************************************************************************)
(* test_lo_sweep.sweep_lo (lines 31-113).  script.open is whether the      *)
(* port is open, script.last the last command written, script.i the index  *)
(* of the next point of the pass, script.sweep_count the passes started    *)
(* (counted up to MaxPasses), script.leaving how the try block was left    *)
(* and script.exc the exception that leaves the function.                  *)
(***************************************************************************)
WriteOutcomes == {"written", "raises", "interrupted"}

PowerCmd(power) == <<"p", power>>

FreqCmd(freq) == <<"f", freq>>

InitVisual ==
    /\ pc = "visual_open"
    /\ config \in GenConfigs
    /\ arduino = NoArduino
    /\ tinysa = NoTinySA
    /\ results = <<>>
    /\ frequencies = <<>>
    /\ idx = 0
    /\ trace = <<>>
    /\ setupStatus = NoStatus
    /\ pending = "none"
    /\ retval = "none"
    /\ saCall = NoCall
    /\ loCall = NoLOCall
    /\ lastStored = NothingStored
    /\ codec = IdleCodec
    /\ exit_status = <<>>
    /\ window = NoWindow
    /\ dual = NoDual
    /\ script = NoScript

VisualFrame ==
    UNCHANGED <<config, arduino, tinysa, results, idx, trace, setupStatus, pending, retval,
                saCall, loVars, exit_status, window, dual>>

\* Lines 51-58: the port is opened, or the function returns False.
VisualOpen ==
    /\ pc = "visual_open"
    /\ \E ok \in BOOLEAN :
        IF ok
        THEN /\ script' = [script EXCEPT !.open = TRUE, !.opened = TRUE]
             /\ pc' = "visual_power"
        ELSE /\ script' = [script EXCEPT !.ret = "False"]
             /\ pc' = "visual_returned"
    /\ UNCHANGED frequencies
    /\ VisualFrame

\* What a write followed by a sleep does to the locals: the write raises,
\* or it returns and the sleep is or is not interrupted by the user.
after_write(sc, command, outcome) ==
    CASE outcome = "raises" ->
            [sc EXCEPT !.leaving = "exception", !.exc = "SerialException"]
      [] outcome = "interrupted" ->
            [sc EXCEPT !.last = command, !.leaving = "interrupt"]
      [] OTHER -> [sc EXCEPT !.last = command]

\* Lines 68-69: the points of a pass.
visual_frequencies(cfg) ==
    LET num_points == ((cfg.freq_stop - cfg.freq_start) \div cfg.freq_step) + 1
    IN  linspace(cfg.freq_start, cfg.freq_stop, num_points)

\* Lines 61-86: the power command, the points, the start of the first pass.
VisualPower ==
    /\ pc = "visual_power"
    /\ \E outcome \in WriteOutcomes :
        LET sc == after_write(script, PowerCmd(config.lo_power), outcome)
        IN  IF outcome = "written"
            THEN /\ frequencies' = visual_frequencies(config)
                 /\ script' = [sc EXCEPT !.i = 1, !.sweep_count = 1]
                 /\ pc' = "visual_loop"
            ELSE /\ UNCHANGED frequencies
                 /\ script' = sc
                 /\ pc' = "visual_finally"
    /\ VisualFrame

\* Lines 85-100: after the last point of a pass the next pass starts.
next_point(sc, n) ==
    IF sc.i < n THEN [sc EXCEPT !.i = @ + 1]
    ELSE [sc EXCEPT !.i = 1, !.sweep_count = Min(@ + 1, MaxPasses)]

\* Lines 89-98: one point of a pass, frequency command and dwell.
VisualPoint ==
    /\ pc = "visual_loop"
    /\ script.i <= Len(frequencies)
    /\ \E outcome \in WriteOutcomes :
        LET sc == after_write(script, FreqCmd(frequencies[script.i]), outcome)
        IN  IF outcome = "written"
            THEN /\ script' = next_point(sc, Len(frequencies))
                 /\ pc' = "visual_loop"
            ELSE /\ script' = sc
                 /\ pc' = "visual_finally"
    /\ UNCHANGED frequencies
    /\ VisualFrame

(***************************************************************************)
(* Lines 102-113: the except clause for KeyboardInterrupt, the finally     *)
(* clause (final frequency command, then close) and the return.  An        *)
(* exception of the final write or of close leaves the function at once.   *)
(***************************************************************************)
visual_finally(sc, cfg, write_ok, close_ok) ==
    LET back == FreqCmd(<<cfg.freq_start, 1>>)
    IN  IF ~write_ok THEN [sc EXCEPT !.exc = "SerialException"]
        ELSE IF ~close_ok THEN [sc EXCEPT !.last = back, !.exc = "SerialException"]
        ELSE [sc EXCEPT !.last = back, !.open = FALSE,
                        !.ret = IF sc.leaving = "interrupt" THEN "True" ELSE "none"]

VisualFinally ==
    /\ pc = "visual_finally"
    /\ \E write_ok \in BOOLEAN, close_ok \in BOOLEAN :
        script' = visual_finally(script, config, write_ok, close_ok)
    /\ pc' = "visual_returned"
    /\ UNCHANGED frequencies
    /\ VisualFrame

NextVisual == VisualOpen \/ VisualPower \/ VisualPoint \/ VisualFinally

SpecVisual == InitVisual /\ [][NextVisual]_vars

(***************************************************************************)
(* Properties of run() and run_sweep, checked under Spec.                  *)
(***************************************************************************)
Indices(q) == 1..Len(q)

\* The events of point p of the sweep, in the order they were issued.
PointEvents(p) == SelectSeq(trace, LAMBDA e : e.pt = p)

\* The frequency commands written to the oscillator, in order.
FEvents == SelectSeq(trace, LAMBDA e : e.dev = "lo" /\ e.cmd = "f")

\* a < b for fractions <<numerator, denominator>> with positive denominators.
Less(a, b) == a[1] * b[2] < b[1] * a[2]

FailedToSet(p) ==
    p \in Indices(results) /\ results[p].error = <<"Failed to set Arduino frequency">>

IsErrorRecord(rec) == rec.error # <<>> /\ rec.power_dbm = <<>>

\* C1: when run_sweep has returned, the log holds exactly one record per
\* generated point: as many records as points, at least one, and for every
\* point exactly one record with its frequency.
C1_OneRecordPerPoint ==
    pc = "save" =>
        /\ Len(results) = Len(frequencies)
        /\ Len(results) >= 1
        /\ \A k \in Indices(frequencies) :
            Cardinality({j \in Indices(results) :
                            results[j].frequency_mhz = frequencies[k]}) = 1

\* C1 witness: run_sweep returned from a sweep of several points that all failed.
C1_Witness_AllPointsFail ==
    /\ pc = "save"
    /\ Len(frequencies) >= 2
    /\ \A j \in Indices(results) : IsErrorRecord(results[j])

\* C2: the points are strictly ascending; the i-th record carries the i-th
\* point; the i-th frequency command carries the i-th point and belongs to
\* iteration i; every iteration passed has issued its command and appended
\* its record, whatever the earlier points met.
C2_AscendingOncePerPoint ==
    /\ \A j \in Indices(frequencies), k \in Indices(frequencies) :
        j < k => Less(frequencies[j], frequencies[k])
    /\ \A j \in Indices(results) :
        j \in Indices(frequencies) /\ results[j].frequency_mhz = frequencies[j]
    /\ \A j \in Indices(FEvents) :
        /\ j \in Indices(frequencies)
        /\ FEvents[j].arg = frequencies[j]
        /\ FEvents[j].pt = j
    /\ pc = "sweep" => Len(results) = idx - 1 /\ Len(FEvents) = idx - 1
    /\ pc = "save" => Len(FEvents) = Len(frequencies)

\* C2 witness: the first point failed and the second one was still measured.
C2_Witness_SecondAfterFailedFirst ==
    /\ pc = "save"
    /\ Len(results) >= 2
    /\ IsErrorRecord(results[1])
    /\ results[2].error = <<>>

\* C3: a point whose set_frequency returned False has exactly one event, its
\* frequency command (no second command, no settling wait, no analyzer
\* command), and one error record with NaN power; the loop goes on to the
\* next point.
C3_SetFrequencyFailure ==
    \A p \in Indices(results) :
        FailedToSet(p) =>
            /\ Len(PointEvents(p)) = 1
            /\ PointEvents(p)[1].dev = "lo"
            /\ PointEvents(p)[1].cmd = "f"
            /\ PointEvents(p)[1].arg = frequencies[p]
            /\ IsErrorRecord(results[p])
            /\ \A j \in Indices(results) :
                results[j].frequency_mhz = frequencies[p] => j = p
            /\ pending = "none" \/ idx > Len(frequencies)
            /\ (pc = "save" /\ p < Len(frequencies)) => Len(PointEvents(p + 1)) >= 1

\* C3 witness: set_frequency failed for the first point and the second point ran.
C3_Witness_FailedThenNext ==
    /\ pc = "save"
    /\ FailedToSet(1)
    /\ Len(results) >= 2
    /\ Len(PointEvents(2)) >= 1

\* C4: no exception of the per-point measurement leaves run_sweep's loop:
\* while the loop runs nothing propagates, an exception out of a run whose
\* setup succeeded comes from after the loop, and each iteration passed has
\* left exactly one record.
C4_PointExceptionsCaught ==
    /\ pc \in {"sweep", "save"} => pending = "none"
    /\ (setupStatus.failed = "none" /\ pending # "none") =>
        /\ pending \in {"ZeroDivisionError", "ValueError", "OSError"}
        /\ idx > Len(frequencies)
    /\ pc = "sweep" => Len(results) = idx - 1
    /\ \A j \in Indices(results) : results[j].frequency_mhz = frequencies[j]

\* C4 witness: the first point met a serial exception, the second an SDK
\* exception inside the analyzer proxy, and run_sweep returned.
C4_Witness_TwoKindsCaught ==
    /\ pc = "save"
    /\ Len(results) >= 2
    /\ results[1].error = <<"serial error">>
    /\ results[2].error = <<"sdk error">>

\* C5: within the sweep the events are grouped by point in ascending order
\* (no interleaving); a point that reached the analyzer issued its frequency
\* command first, the settling wait second and only analyzer commands after
\* that; and when the latest point reached the analyzer, its set_frequency
\* had succeeded (the cache holds its frequency).
C5_SetBeforeMeasure ==
    /\ \A k \in 1..(Len(trace) - 1) :
        trace[k].pt > 0 =>
            \/ trace[k + 1].pt >= trace[k].pt
            \/ \A m \in (k + 1)..Len(trace) : trace[m].pt = 0
    /\ \A p \in Indices(results) :
        LET ev == PointEvents(p)
        IN  (\E k \in Indices(ev) : ev[k].dev = "sa") =>
                /\ Len(ev) >= 3
                /\ ev[1].dev = "lo" /\ ev[1].cmd = "f" /\ ev[1].arg = frequencies[p]
                /\ ev[2] = SleepEvent(p)
                /\ \A k \in 3..Len(ev) : ev[k].dev = "sa"
                /\ (pc = "sweep" /\ p = idx - 1) =>
                    arduino.current_freq = <<frequencies[p]>>

\* C5 witness: two points were both measured by the analyzer.
C5_Witness_TwoMeasured ==
    /\ pc = "save"
    /\ Len(results) >= 2
    /\ results[1].error = <<>>
    /\ results[2].error = <<>>

\* C6 (as claimed): when a step of setup failed, the device rejecting the
\* power command included, no frequency command is written, no point reaches
\* the analyzer and no record is appended.
C6_SetupFailureAborts ==
    (setupStatus.failed # "none" \/ setupStatus.power_rejected) =>
        /\ FEvents = <<>>
        /\ \A k \in Indices(trace) : trace[k].pt = 0
        /\ results = <<>>

\* C7: when run() is over, each proxy that was created has had its
\* disconnect invoked, after every command of the setup, sweep and save
\* phases; the analyzer's is invoked also when the oscillator's raised.
DisconnectAt(dev, name) ==
    {k \in Indices(trace) : trace[k].dev = dev /\ trace[k].cmd = name}

C7_AlwaysDisconnect ==
    pc = "done" =>
        /\ arduino.created => Cardinality(DisconnectAt("lo", "disconnect")) = 1
        /\ tinysa.created => Cardinality(DisconnectAt("sa", "proxy disconnect")) = 1
        /\ \A d \in DisconnectAt("lo", "disconnect") \cup DisconnectAt("sa", "proxy disconnect") :
            \A k \in Indices(trace) :
                (\/ trace[k].pt > 0
                 \/ trace[k].cmd \notin {"disconnect", "close", "proxy disconnect", "resume"})
                    => k < d

\* C7 witness: save_results raised, the oscillator's close raised (the port is
\* still open) and the analyzer's disconnect was invoked all the same.
C7_Witness_SaveAndCloseRaise ==
    /\ pc = "done"
    /\ pending = "OSError"
    /\ arduino.open
    /\ DisconnectAt("sa", "proxy disconnect") # {}

(***************************************************************************)
(* Properties of measure_peak_power, checked under SpecSA on the latest    *)
(* direct call (saCall) and the inputs it met.                             *)
(***************************************************************************)
Count(name, cmds) == Cardinality({k \in Indices(cmds) : cmds[k] = name})

Measured == saCall.op = "measure" /\ saCall.connected

\* The analyzer took the pause: calc and pause both returned.
PauseTaken == Measured /\ saCall.env.calc /\ saCall.env.pause

\* A hop request returned a payload that _parse_data rejects.
Unparseable ==
    /\ PauseTaken
    /\ ~saCall.env.hop1.raised
    /\ \/ ~_parse_data(saCall.env.hop1.payload).ok
       \/ /\ ~saCall.env.hop2.raised
          /\ ~_parse_data(saCall.env.hop2.payload).ok

\* Both hop requests returned parseable payloads and the power one is empty.
EmptyPower ==
    /\ PauseTaken
    /\ ~saCall.env.hop1.raised /\ _parse_data(saCall.env.hop1.payload).ok
    /\ ~saCall.env.hop2.raised /\ _parse_data(saCall.env.hop2.payload).ok
    /\ _parse_data(saCall.env.hop2.payload).values = <<>>

\* C8 (as claimed): a call on a connected proxy that returns a peak, fails on
\* an unparseable payload, fails on an empty result or fails on a raising hop
\* request (calc, pause and resume themselves returning) issues resume
\* exactly once.
C8_ResumeExactlyOnce ==
    (/\ PauseTaken
     /\ saCall.env.resume /\ saCall.env.resume_except
     /\ saCall.cause \in {"none", "parse", "no data", "hop"}) =>
        Count("resume", saCall.cmds) = 1

C10_EmptyLikeUnparseable ==
    (EmptyPower \/ Unparseable) =>
        /\ saCall.exc # "none"
        /\ saCall.power = 0 /\ saCall.freq = 0
        /\ saCall.env.resume_except =>
            saCall.exc = "RuntimeError" /\ Message(saCall.exc) = "Measurement failed"

\* C10 witness: a call whose power payload parsed to zero values raised RuntimeError.
C10_Witness_EmptyPower ==
    /\ EmptyPower
    /\ saCall.env.resume /\ saCall.env.resume_except
    /\ saCall.exc = "RuntimeError"
    /\ saCall.cause = "no data"

\* C11: a measure_peak_power call on a connected proxy issues exactly one
\* calc command, as its first command: aver4 for 4, aver16 for 16 and off
\* for every other value (1, 7, 0, negative); a value outside {1, 4, 16}
\* raises nothing when the instrument answers every request.
CalcCommands == {"calc aver4", "calc aver16", "calc off"}

C11_AveragingToCalc ==
    Measured =>
        /\ Cardinality({k \in Indices(saCall.cmds) : saCall.cmds[k] \in CalcCommands}) = 1
        /\ saCall.averaging = 4 => saCall.cmds[1] = "calc aver4"
        /\ saCall.averaging = 16 => saCall.cmds[1] = "calc aver16"
        /\ saCall.averaging \notin {4, 16} => saCall.cmds[1] = "calc off"
        /\ (saCall.averaging \notin {1, 4, 16} /\ saCall.env = DefaultEnv) =>
            saCall.exc = "none"

\* C11 witness: averaging 7 was measured with "calc off" and returned a peak.
C11_Witness_SevenFallsBack ==
    /\ Measured
    /\ saCall.averaging = 7
    /\ saCall.cmds[1] = "calc off"
    /\ saCall.exc = "none"

(***************************************************************************)
(* Properties of the oscillator proxy, checked under SpecLO on the latest  *)
(* direct call (loCall), the proxy it was made on and the proxy after it.  *)
(***************************************************************************)
\* The latest call was `op`, and its command was written and answered.
Answered(op) == loCall.op = op /\ loCall.before.open /\ loCall.env.write

BandOps == {"reset_to_band_start", "toggle_band"}

ControlOf(op) == IF op = "reset_to_band_start" THEN "r" ELSE "a"

\* C12 (as claimed): whenever the reply to a frequency command contains
\* "ERR", set_frequency returns False and the cached frequency is what it
\* was before the call.
C12_ErrMeansFalse ==
    (Answered("set_frequency") /\ Contains("ERR", loCall.env.response)) =>
        /\ loCall.ret = FALSE
        /\ get_frequency(arduino).ret = get_frequency(loCall.before).ret

\* C13: when the reply to set_frequency(f) contains "MHz" or "Prog:", or
\* contains no "ERR" (the empty reply of a timeout included), the call
\* returns True and the cache holds f; whenever it returns True,
\* get_frequency() gives f.
C13_OptimisticSuccess ==
    Answered("set_frequency") =>
        /\ loCall.exc = "none"
        /\ (\/ Contains("MHz", loCall.env.response)
            \/ Contains("Prog:", loCall.env.response)
            \/ ~Contains("ERR", loCall.env.response)) =>
                loCall.ret = TRUE /\ arduino.current_freq = loCall.arg
        /\ loCall.ret = TRUE => get_frequency(arduino).ret = loCall.arg

\* C13 witness: an empty reply; the call returned True and changed the cache.
C13_Witness_EmptyReply ==
    /\ Answered("set_frequency")
    /\ loCall.env.response = <<>>
    /\ loCall.ret = TRUE
    /\ loCall.before.current_freq # loCall.arg
    /\ arduino.current_freq = loCall.arg

\* C14 (as claimed): set_power(p) returns True with the cache at p when the
\* reply contains "dBm" or "Power" or no "ERR"; on a reply containing "ERR"
\* it returns False with the cache unchanged; it returns True exactly when
\* the cache was written.
C14_SetPowerMirrors ==
    Answered("set_power") =>
        /\ (\/ Contains("dBm", loCall.env.response)
            \/ Contains("Power", loCall.env.response)
            \/ ~Contains("ERR", loCall.env.response)) =>
                loCall.ret = TRUE /\ arduino.current_power = loCall.arg
        /\ Contains("ERR", loCall.env.response) =>
                loCall.ret = FALSE /\ arduino.current_power = loCall.before.current_power
        /\ loCall.ret = TRUE => arduino.current_power = loCall.arg
        /\ loCall.ret = FALSE => arduino.current_power = loCall.before.current_power

\* C15: get_frequency and get_power issue no command, raise nothing and
\* leave the proxy as it was, whether the channel was never opened, is open
\* or was closed; they return the cached value, and the caches always hold
\* what a successful set or status parse last stored.
C15_PureCacheReads ==
    /\ arduino.current_freq = lastStored.freq
    /\ arduino.current_power = lastStored.power
    /\ loCall.op \in {"get_frequency", "get_power"} =>
        /\ loCall.cmds = <<>>
        /\ loCall.exc = "none"
        /\ arduino = loCall.before
    /\ loCall.op = "get_frequency" => loCall.ret = lastStored.freq
    /\ loCall.op = "get_power" => loCall.ret = lastStored.power

\* C15 witness: get_frequency on a proxy whose channel was closed again
\* returned the frequency stored while it was open.
C15_Witness_ReadAfterDisconnect ==
    /\ loCall.op = "get_frequency"
    /\ ~arduino.open
    /\ loCall.ret # <<>>
    /\ arduino.current_power # <<>>

\* C16: a band command whose control command was written and answered has
\* issued exactly two commands, the control command ('r' or 'a') and then
\* the status query 's', whatever the control reply holds; when it returns,
\* it returns True exactly when the control reply contains no "ERR".
C16_ControlThenStatus ==
    \A op \in BandOps :
        Answered(op) =>
            /\ loCall.cmds = <<LOCmd(ControlOf(op), <<>>), LOCmd("s", <<>>)>>
            /\ loCall.exc = "none" =>
                loCall.ret = ~Contains("ERR", loCall.env.response)

\* C16 witness: toggle_band met "ERR" in the control reply, still queried
\* the status (which stored a frequency) and returned False.
C16_Witness_ErrStillResyncs ==
    /\ Answered("toggle_band")
    /\ Contains("ERR", loCall.env.response)
    /\ loCall.exc = "none"
    /\ loCall.ret = FALSE
    /\ arduino.current_freq # loCall.before.current_freq

\* C17: set_frequency, set_power, reset_to_band_start and toggle_band called
\* while the channel is not open (never opened, or closed by disconnect)
\* raise ConnectionError, write nothing and leave both caches unchanged.
C17_ClosedChannelRefuses ==
    (/\ loCall.op \in {"set_frequency", "set_power"} \cup BandOps
     /\ ~loCall.before.open) =>
        /\ loCall.exc = "ConnectionError"
        /\ loCall.cmds = <<>>
        /\ arduino.current_freq = loCall.before.current_freq
        /\ arduino.current_power = loCall.before.current_power

\* C17 witness: set_power after a disconnect, with values in the caches.
C17_Witness_AfterDisconnect ==
    /\ loCall.op = "set_power"
    /\ ~loCall.before.open
    /\ loCall.before.current_freq # <<>>
    /\ loCall.before.current_power # <<>>
    /\ loCall.before.current_power # loCall.arg
    /\ loCall.exc = "ConnectionError"

\* C18: in a call whose status query was answered, a reply without a
\* parseable frequency line leaves the cached frequency as it was and one
\* without a parseable power line leaves the cached power as it was; a
\* field that changed holds the value of its own line; and when the query
\* returned, each field whose line parsed holds that value, whatever the
\* other line was.
StatusQueried ==
    \/ loCall.op = "connect" /\ ~loCall.before.open /\ loCall.env.write
                             /\ loCall.env.status_write
    \/ \E op \in BandOps : Answered(op) /\ loCall.env.status_write

C18_StatusParsePerField ==
    StatusQueried =>
        LET reply == loCall.env.status_response
        IN  /\ ParsedFreq(reply) = <<>> => arduino.current_freq = loCall.before.current_freq
            /\ ParsedPower(reply) = <<>> => arduino.current_power = loCall.before.current_power
            /\ arduino.current_freq # loCall.before.current_freq =>
                arduino.current_freq = ParsedFreq(reply)
            /\ arduino.current_power # loCall.before.current_power =>
                arduino.current_power = ParsedPower(reply)
            /\ loCall.exc = "none" =>
                /\ ParsedFreq(reply) # <<>> => arduino.current_freq = ParsedFreq(reply)
                /\ ParsedPower(reply) # <<>> => arduino.current_power = ParsedPower(reply)

\* C18 witness: a status reply with a power line only; the power changed
\* and the frequency set before is still cached.
C18_Witness_PowerLineOnly ==
    /\ StatusQueried
    /\ loCall.env.status_response = <<"Power: -4 dBm">>
    /\ loCall.before.current_freq # <<>>
    /\ loCall.before.current_power = <<5>>
    /\ arduino.current_power = <<-4>>
    /\ arduino.current_freq = loCall.before.current_freq

(***************************************************************************)
(* Properties of _send_command's collection loop, checked under SpecCodec. *)
(***************************************************************************)
Ended == codec.phase \in {"returned", "raised"}

\* C19: a command that was written and for which no poll found a byte ends
\* by returning the empty response, not by raising, and was written once.
C19_SilenceGivesEmptyResponse ==
    /\ codec.phase = "polling" => codec.written = 1
    /\ (Ended /\ codec.end \notin {"closed", "write"} /\ ~codec.got_bytes) =>
        /\ codec.phase = "returned"
        /\ codec.exc = "none"
        /\ codec.response_lines = <<>>
        /\ codec.written = 1

\* C19 witness: the timeout elapsed without a byte; the empty response was returned.
C19_Witness_SilentDevice ==
    /\ codec.phase = "returned"
    /\ ~codec.got_bytes
    /\ codec.end = "timeout"
    /\ codec.response_lines = <<>>
    /\ codec.written = 1

\* C20 (as claimed): a returned response was ended either by an empty poll
\* with at least one line collected, or by the timeout with no line
\* collected.
C20_TwoEndsOnly ==
    codec.phase = "returned" =>
        \/ codec.end = "quiescence" /\ codec.response_lines # <<>>
        \/ codec.end = "timeout" /\ codec.response_lines = <<>>

\* C20 (amended): every _send_command that started polling ends, and a
\* returned response was ended either by an empty poll with at least one
\* line collected, or by the elapsed timeout, with no line or with the lines
\* collected so far; an empty poll never ends it before the first line.
C20_EndsOfCollection ==
    /\ [](codec.phase = "returned" =>
            \/ codec.end = "quiescence" /\ codec.response_lines # <<>>
            \/ codec.end = "timeout" /\ codec.elapsed >= TimeoutTicks)
    /\ (codec.phase = "polling") ~> Ended

\* C20 witness: the timeout ended a collection that already held a line.
C20_Witness_TimeoutWithLines ==
    /\ codec.phase = "returned"
    /\ codec.end = "timeout"
    /\ codec.response_lines # <<>>

\* The lines among what readline gave that decode and are not blank, in the
\* order of their arrival.
DecodableLines(reads) == SelectSeq(reads, LAMBDA l : l # "" /\ l # Undecodable)

\* C21: bytes that do not decode never end a command with an error; while
\* the response is collected and when it is returned it holds exactly the
\* decodable non-blank lines received, in the order of their arrival; and
\* the command is written once, whatever was received.
C21_UndecodableDropped ==
    /\ codec.exc # "UnicodeDecodeError"
    /\ codec.phase \in {"polling", "returned"} =>
        /\ codec.response_lines = DecodableLines(codec.reads)
        /\ codec.written = 1
    /\ (codec.phase = "raised" /\ codec.end \notin {"closed", "write"}) =>
        /\ codec.exc = "SerialException"
        /\ codec.written = 1

\* C21 witness: a response was returned that holds the line received after
\* bytes that did not decode.
C21_Witness_LineAfterUndecodable ==
    /\ codec.phase = "returned"
    /\ Len(codec.reads) >= 2
    /\ codec.reads[1] = Undecodable
    /\ codec.reads[2] \in CodecLines
    /\ codec.response_lines # <<>>
    /\ codec.response_lines[1] = codec.reads[2]

(***************************************************************************)
(* Properties of generate_frequency_list, checked under SpecGen.  Points   *)
(* are fractions <<numerator, denominator>> with a positive denominator.   *)
(***************************************************************************)
FracLess(a, b) == a[1] * b[2] < b[1] * a[2]

FracIs(a, n) == a[1] = n * a[2]

StrictlyAscending(f) == \A k \in 1..(Len(f) - 1) : FracLess(f[k], f[k + 1])

Generated == pc = "generated"

C23_AccountingNeverRaises ==
    /\ pending # "ZeroDivisionError"
    /\ (setupStatus.failed = "none" /\ pc \in {"cleanup", "done", "exited"}) =>
        /\ Len(results) = Len(frequencies)
        /\ pending \in {"none", "ValueError", "OSError"}

\* C24: the exit status is set when the process exits and depends on the
\* exception out of run() alone: a run whose setup and saving succeeded
\* exits with 0 whatever error records its log holds, and a run that an
\* exception left exits with a non-zero status.
C24_ExitStatusFromFatalOnly ==
    /\ pc # "exited" => exit_status = <<>>
    /\ pc = "exited" =>
        /\ Len(exit_status) = 1
        /\ (setupStatus.failed = "none" /\ retval = "output_file") => exit_status = <<0>>
        /\ pending # "none" => exit_status[1] # 0
        /\ exit_status = <<0>> => (pending = "none" /\ retval = "output_file")

\* C24 witness: the process exited with 0 after a sweep of two points or
\* more in which every point left an error record.
C24_Witness_AllPointsFailed ==
    /\ pc = "exited"
    /\ exit_status = <<0>>
    /\ Len(results) >= 2
    /\ \A k \in 1..Len(results) : results[k].error # <<>>

(***************************************************************************)
(* Properties of quick_scan, checked under SpecSA.                         *)
(***************************************************************************)
Scanned == saCall.op = "quick_scan" /\ saCall.connected

\* C25 (as claimed): a quick_scan on a connected proxy whose pause and
\* resume requests return issues pause first, before the scan requests, and
\* resume exactly once, as its last command, whether it returns the scan
\* buffers, a scan request raises or a payload is unparseable.
C25_ScanResumesOnce ==
    (/\ Scanned
     /\ saCall.env.pause /\ saCall.env.resume /\ saCall.env.resume_except
     /\ saCall.cause \in {"none", "scan", "parse"}) =>
        /\ saCall.cmds[1] = "pause"
        /\ Count("pause", saCall.cmds) = 1
        /\ saCall.cmds[Len(saCall.cmds)] = "resume"
        /\ Count("resume", saCall.cmds) = 1

\* C26: the commands of a measure_peak_power call on a connected proxy are
\* a prefix of calc, pause, hop (frequencies), hop (powers), resume, then
\* resumes only: the averaging mode is set first and the pause follows it,
\* every hop comes after the pause returned and before any resume, the
\* power hop is issued only after the frequency hop returned, and a call
\* that returns has issued exactly the five commands in that order.
C26_CommandOrder ==
    Measured =>
        LET cmds == saCall.cmds
        IN  /\ Len(cmds) >= 1 /\ cmds[1] = calc_mode(saCall.averaging)
            /\ \A k \in Indices(cmds) :
                /\ cmds[k] \in {"calc off", "calc aver4", "calc aver16"} => k = 1
                /\ cmds[k] = "pause" => (k = 2 /\ saCall.env.calc)
                /\ cmds[k] = "hop 1" => (k = 3 /\ saCall.env.pause)
                /\ cmds[k] = "hop 2" =>
                    /\ k = 4 /\ cmds[3] = "hop 1"
                    /\ ~saCall.env.hop1.raised
                /\ cmds[k] \in {"hop 1", "hop 2"} =>
                    /\ cmds[2] = "pause"
                    /\ \A j \in 1..(k - 1) : cmds[j] # "resume"
                /\ cmds[k] = "resume" => (k >= 4 /\ \A j \in k..Len(cmds) : cmds[j] = "resume")
            /\ saCall.exc = "none" =>
                cmds = <<calc_mode(saCall.averaging), "pause", "hop 1", "hop 2", "resume">>

\* C26 witness: a call with averaging 16 returned a peak.
C26_Witness_FullSequence ==
    /\ Measured
    /\ saCall.exc = "none"
    /\ saCall.cmds = <<"calc aver16", "pause", "hop 1", "hop 2", "resume">>

\* The arrays the two hop requests of the latest call parsed to.
ParsedFreqs == _parse_data(saCall.env.hop1.payload).values

ParsedPowers == _parse_data(saCall.env.hop2.payload).values

\* The first index at which the parsed power array holds its maximum (0 for none).
FirstMax ==
    IF \E k \in Indices(ParsedPowers) :
            /\ \A j \in Indices(ParsedPowers) : ParsedPowers[j] <= ParsedPowers[k]
            /\ \A j \in 1..(k - 1) : ParsedPowers[j] < ParsedPowers[k]
    THEN CHOOSE k \in Indices(ParsedPowers) :
            /\ \A j \in Indices(ParsedPowers) : ParsedPowers[j] <= ParsedPowers[k]
            /\ \A j \in 1..(k - 1) : ParsedPowers[j] < ParsedPowers[k]
    ELSE 0

C28_WindowAroundCenter ==
    (/\ window.computed
     /\ window.span_hz >= 0
     /\ 2 * window.center_hz >= window.span_hz) =>
        /\ window.start_hz <= window.center_hz
        /\ window.center_hz <= window.stop_hz
        /\ window.stop_hz - window.start_hz = window.span_hz

\* C28 witness: a window of odd span was computed, its start truncated.
C28_Witness_OddSpan ==
    /\ window.computed
    /\ window.span_hz % 2 = 1
    /\ 2 * window.center_hz >= window.span_hz
    /\ window.center_hz = 3 /\ window.span_hz = 5
    /\ window.start_hz = 0 /\ window.stop_hz = 5

\* C29 (as claimed): a connect that returns on a proxy that was not
\* connected has issued the link, the info query and the four defaults,
\* once each and in that order; a connect on a connected proxy issues
\* nothing; after any connect that returned the defaults are applied; and
\* no measurement or scan sends a command to an analyzer whose defaults
\* were not applied.
C29_DefaultsBeforeMeasuring ==
    /\ (saCall.op = "connect" /\ ~saCall.connected /\ saCall.exc = "none") =>
        /\ saCall.cmds = ConnectSteps
        /\ \A d \in {"mode low input", "agc auto", "attenuate auto", "rbw auto"} :
            Count(d, saCall.cmds) = 1
    /\ (saCall.op = "connect" /\ saCall.connected) =>
        (saCall.cmds = <<>> /\ saCall.exc = "none")
    /\ (saCall.op = "connect" /\ saCall.exc = "none") => tinysa.configured
    /\ (saCall.op \in {"measure", "quick_scan"} /\ saCall.cmds # <<>>) => tinysa.configured

(***************************************************************************)
(* The phases of run(), read off the events of `trace`: 1 for setup, 2 for *)
(* the sweep, 3 for the save attempt, 4 for cleanup.                       *)
(***************************************************************************)
PhaseOf(e) ==
    IF e.pt > 0 THEN 2
    ELSE IF e = SaveEvent THEN 3
    ELSE IF e.cmd \in {"disconnect", "close", "proxy disconnect", "resume"} THEN 4
    ELSE 1

InPhase(n) == {k \in Indices(trace) : PhaseOf(trace[k]) = n}

\* C30 (as claimed): the events of a run are those of setup, then of the
\* sweep, then the save attempt, then of cleanup, with one save attempt and
\* one disconnect of each proxy at most; no point is taken unless setup
\* completed; save_results is called only when every point has its record;
\* the disconnects of a run whose setup completed follow its save attempt;
\* and a run that failed without taking any point failed in setup.
C30_PhasesInOrder ==
    /\ \A k \in 1..(Len(trace) - 1) : PhaseOf(trace[k]) <= PhaseOf(trace[k + 1])
    /\ Cardinality(InPhase(3)) <= 1
    /\ Cardinality(DisconnectAt("lo", "disconnect")) <= 1
    /\ Cardinality(DisconnectAt("sa", "proxy disconnect")) <= 1
    /\ InPhase(2) # {} => setupStatus.failed = "none"
    /\ InPhase(3) # {} =>
        /\ Len(frequencies) >= 1
        /\ Len(results) = Len(frequencies)
    /\ (InPhase(4) # {} /\ setupStatus.failed = "none") => InPhase(3) # {}
    /\ (pc \in {"done", "exited"} /\ pending # "none" /\ InPhase(2) = {}) =>
        setupStatus.failed # "none"

\* C33 (as claimed): after a disconnect on a connected analyzer proxy the
\* proxy is not connected and its link is closed, also when the resume or
\* the SDK disconnect raised.
C33_DisconnectReleases ==
    (saCall.op = "disconnect" /\ saCall.connected) =>
        (~tinysa.connected /\ ~tinysa.link)

\* C34 (as claimed): a connect that raised leaves the analyzer proxy not
\* connected, whichever of its steps raised, and a measurement or scan on a
\* proxy whose defaults were never applied raises ConnectionError without
\* a command.
C34_FailedConnectNotConnected ==
    /\ (saCall.op = "connect" /\ saCall.exc # "none") => ~tinysa.connected
    /\ (saCall.op \in {"measure", "quick_scan"} /\ ~tinysa.configured) =>
        (saCall.exc = "ConnectionError" /\ saCall.cmds = <<>>)

\* C35 (as claimed): a connect of the oscillator proxy that raised, called
\* directly or as the __enter__ of a with block, leaves the channel closed.
C35_FailedConnectClosed ==
    /\ (loCall.op = "connect" /\ loCall.exc # "none") => ~arduino.open
    /\ (/\ loCall.op = "with"
        /\ loCall.exc # "none"
        /\ \A k \in Indices(loCall.cmds) : loCall.cmds[k].cmd # "close") => ~arduino.open

\* C36: a measure_peak_power or quick_scan on a proxy that is not connected
\* raises ConnectionError and has issued no command.
C36_NotConnectedNoCommand ==
    (saCall.op \in {"measure", "quick_scan"} /\ ~saCall.connected) =>
        /\ saCall.exc = "ConnectionError"
        /\ saCall.cause = "not connected"
        /\ saCall.cmds = <<>>

\* C36 witness: a quick_scan on a created, unconnected proxy was refused.
C36_Witness_ScanRefused ==
    /\ saCall.op = "quick_scan"
    /\ ~saCall.connected
    /\ saCall.exc = "ConnectionError"
    /\ tinysa.created /\ ~tinysa.connected /\ ~tinysa.link

(***************************************************************************)
(* Properties of the measurement log and of the end of run(), checked      *)
(* under Spec.                                                             *)
(***************************************************************************)
IsPrefix(s, t) == Len(s) <= Len(t) /\ SubSeq(t, 1, Len(s)) = s

C37_CleanupKeepsOutcome ==
    /\ [][pc = "cleanup" => (pending' = pending /\ retval' = retval)]_vars
    /\ [](pc \in {"done", "exited"} => ((retval = "output_file") <=> (pending = "none")))

\* C37 witness: the run returned the output path although the oscillator's
\* port could not be closed.
C37_Witness_ReturnedDespiteFailedClose ==
    /\ pc = "done"
    /\ retval = "output_file"
    /\ pending = "none"
    /\ arduino.open
    /\ \E k \in Indices(trace) : trace[k].dev = "lo" /\ trace[k].cmd = "close"

\* The positions of the analyzer's rbw / attenuation commands in `trace`.
SettingAt(auto, value) ==
    {k \in Indices(trace) : trace[k].dev = "sa" /\ trace[k].cmd \in {auto, value}}

LastIn(S) == CHOOSE k \in S : \A j \in S : j <= k

\* The override of a setting is the last command for it, precedes every
\* event of the sweep and follows the connect-time default.
OverrideStands(auto, value) ==
    LET S == SettingAt(auto, value)
    IN  /\ S # {}
        /\ trace[LastIn(S)].cmd = value
        /\ trace[LastIn(S)].pt = 0
        /\ \A k \in Indices(trace) : trace[k].pt > 0 => LastIn(S) < k
        /\ \E j \in S : j < LastIn(S) /\ trace[j].cmd = auto
        /\ Cardinality(S) = 2

\* C38: once setup completed with rbw (attenuation) configured as a
\* number, the analyzer's last rbw (attenuation) command is the override,
\* sent after the automatic default of connect and before the first point;
\* nothing in the sweep or after it sends another.
C38_OverrideAfterDefault ==
    (setupStatus.failed = "none" /\ pc \notin {"setup"}) =>
        /\ config.rbw # Auto => OverrideStands("rbw auto", "rbw value")
        /\ config.attenuation # Auto => OverrideStands("attenuate auto", "attenuate value")

\* C38 witness: both settings are overridden and a point was measured.
C38_Witness_BothOverridden ==
    /\ config.rbw # Auto /\ config.attenuation # Auto
    /\ setupStatus.failed = "none"
    /\ \E k \in Indices(results) : results[k].error = <<>>
    /\ OverrideStands("rbw auto", "rbw value")
    /\ OverrideStands("attenuate auto", "attenuate value")

(***************************************************************************)
(* Properties of main in dual-power mode, checked under SpecDual.          *)
(***************************************************************************)
OpenHandles ==
    [lo |-> dual.stale.lo + (IF arduino.open THEN 1 ELSE 0),
     sa |-> dual.stale.sa + (IF tinysa.link THEN 1 ELSE 0)]

\* C31 (as claimed): no channel ever has more than one open handle, and
\* when the setup of a later sweep starts the proxies of the sweep before
\* it hold no channel open, whatever their disconnects met.
C31_OneHandlePerChannel ==
    /\ OpenHandles.lo <= 1
    /\ OpenHandles.sa <= 1
    /\ (pc = "dual_setup" /\ dual.sweep > 1) => dual.stale = [lo |-> 0, sa |-> 0]

(***************************************************************************)
(* Properties of sweep_lo, checked under SpecVisual.                       *)
(***************************************************************************)
VisualLeft == pc = "visual_returned" /\ script.opened

\* C39 (as claimed): once the port was opened, the function is left only
\* after the try block was left by an interrupt or an exception, with
\* 'f <freq_start>' as the last command written and the port closed; and
\* while the loop runs the commands written are the points in ascending
\* order, pass after pass.
C39_AlwaysReturnsToStartAndCloses ==
    /\ VisualLeft =>
        /\ script.leaving \in {"interrupt", "exception"}
        /\ script.last = FreqCmd(<<config.freq_start, 1>>)
        /\ ~script.open
    /\ pc = "visual_loop" =>
        /\ script.i \in 1..Len(frequencies)
        /\ script.leaving = "none"
        /\ script.last =
            IF script.i > 1 THEN FreqCmd(frequencies[script.i - 1])
            ELSE IF script.sweep_count = 1 THEN PowerCmd(config.lo_power)
            ELSE FreqCmd(frequencies[Len(frequencies)])

(***************************************************************************)
(* test_system.test_arduino (lines 20-61).  script.opened is whether       *)
(* lo.connect() returned, script.leaving names the statement that left the *)
(* function and script.ret is the value returned; trace holds the calls    *)
(* made on the proxy so far, each with what it met.                        *)
(***************************************************************************)
test_freq == <<925, 1>>

test_power == 5

InitCheck ==
    /\ pc = "check_connect"
    /\ config = CHOOSE c \in Configs : TRUE
    /\ arduino = NewArduino
    /\ tinysa = NoTinySA
    /\ results = <<>>
    /\ frequencies = <<>>
    /\ idx = 0
    /\ trace = <<>>
    /\ setupStatus = NoStatus
    /\ pending = "none"
    /\ retval = "none"
    /\ saCall = NoCall
    /\ loCall = NoLOCall
    /\ lastStored = NothingStored
    /\ codec = IdleCodec
    /\ exit_status = <<>>
    /\ window = NoWindow
    /\ dual = NoDual
    /\ script = NoScript

CheckFrame ==
    /\ trace' = Append(trace, loCall')
    /\ UNCHANGED <<config, tinysa, results, frequencies, idx, setupStatus, pending,
                   retval, saCall, codec, exit_status, window, dual>>

\* Lines 59-61: any exception of the try block makes the function return False.
check_except(sc) == [sc EXCEPT !.leaving = "except", !.ret = "False"]

\* Lines 28-33: the proxy is made and connected; the two getters read the caches.
CheckConnect ==
    /\ pc = "check_connect"
    /\ \E fail \in ArduinoConnectFails :
       \E status \in (IF fail = "none" THEN StatusResponses ELSE {<<>>}) :
        LET r == arduino_connect(arduino, fail, status)
            env == [write |-> fail # "open", response |-> <<>>,
                    status_write |-> fail # "status", status_response |-> status]
        IN  /\ arduino' = r.lo
            /\ loCall' = LOCallOf("connect", <<>>, r, env)
            /\ lastStored' = IF fail = "none" THEN StoreStatus(lastStored, status, r.exc)
                             ELSE lastStored
            /\ IF r.exc = "none"
               THEN /\ script' = [script EXCEPT !.opened = TRUE]
                    /\ pc' = "check_frequency"
               ELSE /\ script' = check_except(script)
                    /\ pc' = "check_returned"
    /\ CheckFrame

\* Lines 36-43: the frequency command; `return False` when it reports failure.
CheckFrequency ==
    /\ pc = "check_frequency"
    /\ \E env \in SetEnvs(FreqResponses) :
        LET r == set_frequency(arduino, test_freq, env.write, env.response)
        IN  /\ arduino' = r.lo
            /\ loCall' = LOCallOf("set_frequency", <<test_freq>>, r, env)
            /\ lastStored' = IF r.exc = "none" /\ r.ret
                             THEN [lastStored EXCEPT !.freq = <<test_freq>>]
                             ELSE lastStored
            /\ IF r.exc # "none"
               THEN script' = check_except(script) /\ pc' = "check_returned"
               ELSE IF r.ret
               THEN UNCHANGED script /\ pc' = "check_power"
               ELSE /\ script' = [script EXCEPT !.leaving = "set_frequency", !.ret = "False"]
                    /\ pc' = "check_returned"
    /\ CheckFrame

\* Lines 46-53: the power command; `return False` when it reports failure.
CheckPower ==
    /\ pc = "check_power"
    /\ \E env \in SetEnvs(PowerResponses) :
        LET r == set_power(arduino, test_power, env.write, env.response)
        IN  /\ arduino' = r.lo
            /\ loCall' = LOCallOf("set_power", <<test_power>>, r, env)
            /\ lastStored' = IF r.exc = "none" /\ r.ret
                             THEN [lastStored EXCEPT !.power = <<test_power>>]
                             ELSE lastStored
            /\ IF r.exc # "none"
               THEN script' = check_except(script) /\ pc' = "check_returned"
               ELSE IF r.ret
               THEN UNCHANGED script /\ pc' = "check_disconnect"
               ELSE /\ script' = [script EXCEPT !.leaving = "set_power", !.ret = "False"]
                    /\ pc' = "check_returned"
    /\ CheckFrame

\* Lines 55-57: disconnect and `return True`.
CheckDisconnect ==
    /\ pc = "check_disconnect"
    /\ \E close_ok \in BOOLEAN :
        LET r == arduino_disconnect(arduino, close_ok)
        IN  /\ arduino' = r.lo
            /\ loCall' = LOCallOf("disconnect", <<>>, r, [DefaultLOEnv EXCEPT !.write = close_ok])
            /\ script' = IF r.exc # "none" THEN check_except(script)
                         ELSE [script EXCEPT !.leaving = "passed", !.ret = "True"]
    /\ pc' = "check_returned"
    /\ UNCHANGED lastStored
    /\ CheckFrame

NextCheck == CheckConnect \/ CheckFrequency \/ CheckPower \/ CheckDisconnect

SpecCheck == InitCheck /\ [][NextCheck]_vars

(***************************************************************************)
(* Properties of test_arduino, checked under SpecCheck.                    *)
(***************************************************************************)
\* C40 (as claimed): whenever test_arduino has returned after lo.connect()
\* returned, the oscillator channel is closed, whichever statement left the
\* function.
C40_CheckLeavesChannelClosed ==
    (pc = "check_returned" /\ script.opened) => ~arduino.open

====
